---------------------------- MODULE Spec2Model ----------------------------
(***************************************************************************)
(* The changelog reconciliation engine of changelog-checker: the cache     *)
(* store (pkg/db), the GitHub PR-metadata client (pkg/github), and the     *)
(* checker (pkg/checker): section lookup, PR-number extraction,            *)
(* description extraction, the similarity pipeline, CheckPR and            *)
(* CheckChangelog.                                                         *)
(*                                                                         *)
(* Text is a sequence of one-character strings; a file is a sequence of    *)
(* lines.  Time is counted in days.                                        *)
(***************************************************************************)
EXTENDS Integers, Sequences, FiniteSets, TLC

(***************************************************************************)
(* Bounds of the model.                                                    *)
(***************************************************************************)
\* The longest PR list the sampling policy is applied to.
MaxPRs == 10
\* The most store operations that fail during one call.
MaxFaults == 1

\* The longest file and the longest section the parser is called on, in lines.
MaxLines == 3

\* The longest description and title the similarity check is called with.
MaxText == 3

\* The most reopened issues close-reopened-issues finds in one run.
MaxReopened == 2
\* The most prompts it issues for one issue.
MaxPrompts == 3

(***************************************************************************)
(* Program constants.                                                      *)
(***************************************************************************)
\* 7*24*time.Hour, in days (db.go:87 and db.go:128).
TTL == 7
\* types.PRStatus (types.go:15-19).
StatusGoodMatch == 0
StatusPotentialMismatch == 1
StatusNotFound == 2

(***************************************************************************)
(* Strings (package strings, strconv).                                     *)
(***************************************************************************)
Digits == <<"0", "1", "2", "3", "4", "5", "6", "7", "8", "9">>
UpperChars == <<"A", "B", "C", "D", "E", "F", "G", "H", "I", "J", "K", "L", "M",
                "N", "O", "P", "Q", "R", "S", "T", "U", "V", "W", "X", "Y", "Z">>
LowerChars == <<"a", "b", "c", "d", "e", "f", "g", "h", "i", "j", "k", "l", "m",
                "n", "o", "p", "q", "r", "s", "t", "u", "v", "w", "x", "y", "z">>

\* The backtick character (a string literal cannot hold it).
Backtick == "BACKTICK"

IsDigit(c) == \E i \in 1..10 : Digits[i] = c

DigitVal(c) == (CHOOSE i \in 1..10 : Digits[i] = c) - 1

\* strings.HasPrefix
HasPrefix(s, p) == Len(p) <= Len(s) /\ SubSeq(s, 1, Len(p)) = p

\* p occurs in s at the (1-based) position i.
OccursAt(s, i, p) == i >= 1 /\ i + Len(p) - 1 <= Len(s) /\ SubSeq(s, i, i + Len(p) - 1) = p

\* strings.Index: the 0-based index of the first occurrence of p in s, or -1.
Index(s, p) ==
  IF \E i \in 1..(Len(s) + 1) : OccursAt(s, i, p)
  THEN (CHOOSE i \in 1..(Len(s) + 1) :
          OccursAt(s, i, p) /\ \A j \in 1..(i - 1) : ~OccursAt(s, j, p)) - 1
  ELSE -1
\* strings.Contains that does not find the empty string.
Contains_NotTheEmpty(s, p) == p # <<>> /\ \E i \in 1..Len(s) : OccursAt(s, i, p)

\* strings.Contains: Index(s, p) >= 0, that is, p occurs in s somewhere.
Contains(s, p) == \E i \in 1..(Len(s) + 1) : OccursAt(s, i, p)

\* strings.ToLower, on the ASCII letters.
LowerChar(c) ==
  IF \E i \in 1..26 : UpperChars[i] = c
  THEN LowerChars[CHOOSE i \in 1..26 : UpperChars[i] = c]
  ELSE c

ToLower(s) == [i \in 1..Len(s) |-> LowerChar(s[i])]

\* strings.ReplaceAll(s, c, "") for a one-character c.
RECURSIVE RemoveChar(_, _)
RemoveChar(s, c) ==
  IF s = <<>> THEN <<>>
  ELSE IF Head(s) = c THEN RemoveChar(Tail(s), c)
  ELSE <<Head(s)>> \o RemoveChar(Tail(s), c)

\* strconv.Itoa / the %d verb, for n >= 0.
RECURSIVE Itoa(_)
Itoa(n) == IF n < 10 THEN <<Digits[n + 1]>> ELSE Itoa(n \div 10) \o <<Digits[(n % 10) + 1]>>

\* strconv.Atoi on a non-empty run of digits (short enough not to overflow).
RECURSIVE Atoi(_)
Atoi(ds) ==
  IF Len(ds) = 1 THEN DigitVal(ds[1])
  ELSE Atoi(SubSeq(ds, 1, Len(ds) - 1)) * 10 + DigitVal(ds[Len(ds)])

\* strings.Join(lines, "\n")
RECURSIVE JoinLines(_)
JoinLines(lines) ==
  IF lines = <<>> THEN <<>>
  ELSE IF Len(lines) = 1 THEN lines[1]
  ELSE lines[1] \o <<"\n">> \o JoinLines(Tail(lines))

\* bufio.Scanner with ScanLines: the lines of a text, without their line ends; a
\* final line end opens no further line.
RECURSIVE ScanLines(_)
ScanLines(text) ==
  IF text = <<>> THEN <<>>
  ELSE LET nl == Index(text, <<"\n">>)
       IN IF nl = -1 THEN <<text>>
          ELSE <<SubSeq(text, 1, nl)>> \o ScanLines(SubSeq(text, nl + 2, Len(text)))

(***************************************************************************)
(* Regular expressions of pkg/checker.                                     *)
(***************************************************************************)
\* The position after the longest run of digits of s that starts at i.
RECURSIVE DigitsEnd(_, _)
DigitsEnd(s, i) == IF i <= Len(s) /\ IsDigit(s[i]) THEN DigitsEnd(s, i + 1) ELSE i

\* `\[\\#(\d+)\]` matched at position i of s: the position after the match, 0 if
\* there is none.
PRRefEnd(s, i) ==
  IF OccursAt(s, i, <<"[", "\\", "#">>)
  THEN LET e == DigitsEnd(s, i + 3)
       IN IF e > i + 3 /\ e <= Len(s) /\ s[e] = "]" THEN e + 1 ELSE 0
  ELSE 0

\* re.FindAllStringSubmatch(s, -1) for `\[\\#(\d+)\]`: the digit groups of the
\* successive non-overlapping matches, from position i on.
RECURSIVE FindAllPRRefs(_, _)
FindAllPRRefs(s, i) ==
  IF i > Len(s) THEN <<>>
  ELSE LET e == PRRefEnd(s, i)
       IN IF e = 0 THEN FindAllPRRefs(s, i + 1)
          ELSE <<SubSeq(s, i + 3, e - 2)>> \o FindAllPRRefs(s, e)

\* The position of the first c in s at or after i, Len(s) + 1 if there is none.
RECURSIVE FirstAt(_, _, _)
FirstAt(s, i, c) == IF i > Len(s) \/ s[i] = c THEN i ELSE FirstAt(s, i + 1, c)

\* `\[\\#\d+\]\([^)]+\) (.+)$` matched at position i of s: the text of the group,
\* <<>> if there is no match.  [^)]+ ends at the first ")" and (.+) runs to the
\* end of the line.
LinkDescAt(s, i) ==
  LET e == PRRefEnd(s, i)
  IN IF e = 0 \/ e > Len(s) \/ s[e] # "(" THEN <<>>
     ELSE LET c == FirstAt(s, e + 1, ")")
          IN IF c > e + 1 /\ c + 2 <= Len(s) /\ s[c + 1] = " "
             THEN SubSeq(s, c + 2, Len(s))
             ELSE <<>>


(***************************************************************************)
(* pkg/checker: the changelog parser.                                      *)
(***************************************************************************)
\* fmt.Sprintf("[\\#%d]", prNumber)
PRRef(prNumber) == <<"[", "\\", "#">> \o Itoa(prNumber) \o <<"]">>

\* The list l followed by n, whether l holds n or not.
AppendUnique_Always(l, n) == Append(l, n)

\* The list l followed by n unless l holds n already (checker.go:79-90).
AppendUnique(l, n) == IF \E i \in 1..Len(l) : l[i] = n THEN l ELSE Append(l, n)

RECURSIVE UniqueNumbers(_, _)
UniqueNumbers(matches, acc) ==
  IF matches = <<>> THEN acc
  ELSE UniqueNumbers(Tail(matches), AppendUnique(acc, Atoi(Head(matches))))

\* Checker.ExtractPRNumbers: the numbers of all `[\#<digits>]` markers of the
\* section, each once, in the order of their first match.
ExtractPRNumbers(changelogSection) == UniqueNumbers(FindAllPRRefs(changelogSection, 1), <<>>)

\* findSection: some line has the prefix header.
FindSection(lines, header) == \E i \in 1..Len(lines) : HasPrefix(lines[i], header)

\* `^## \[(v\d+\.\d+\.\d+)\]` on a line: the group, <<>> if there is no match.
VersionOfHeader(line) ==
  IF ~HasPrefix(line, <<"#", "#", " ", "[", "v">>) THEN <<>>
  ELSE LET a == DigitsEnd(line, 6)
       IN IF ~(a > 6 /\ a <= Len(line) /\ line[a] = ".") THEN <<>>
          ELSE LET b == DigitsEnd(line, a + 1)
               IN IF ~(b > a + 1 /\ b <= Len(line) /\ line[b] = ".") THEN <<>>
                  ELSE LET c == DigitsEnd(line, b + 1)
                       IN IF c > b + 1 /\ c <= Len(line) /\ line[c] = "]"
                          THEN SubSeq(line, 5, c - 1)
                          ELSE <<>>

Unreleased == <<"U", "n", "r", "e", "l", "e", "a", "s", "e", "d">>

\* fmt.Sprintf("## [%s]", tag)
HeaderOf(tag) == <<"#", "#", " ", "[">> \o tag \o <<"]">>

\* The version of the first line that is a version header, Unreleased if no line
\* is one (checker.go:153-159).
RECURSIVE FirstVersion(_)
FirstVersion(lines) ==
  IF lines = <<>> THEN Unreleased
  ELSE IF VersionOfHeader(Head(lines)) # <<>> THEN VersionOfHeader(Head(lines))
  ELSE FirstVersion(Tail(lines))

\* The version tag taken from the first header of the file, be it that of
\* Unreleased or of a version.
RECURSIVE EffectiveTag_FirstHeader(_, _)
EffectiveTag_FirstHeader(lines, versionTag) ==
  IF versionTag # <<>> THEN versionTag
  ELSE IF lines = <<>> THEN Unreleased
  ELSE IF HasPrefix(Head(lines), HeaderOf(Unreleased)) THEN Unreleased
  ELSE IF VersionOfHeader(Head(lines)) # <<>> THEN VersionOfHeader(Head(lines))
  ELSE EffectiveTag_FirstHeader(Tail(lines), versionTag)

\* The version tag the section is looked up for (checker.go:142-169).
EffectiveTag(lines, versionTag) ==
  IF versionTag # <<>> THEN versionTag
  ELSE IF FindSection(lines, HeaderOf(Unreleased)) THEN Unreleased
  ELSE FirstVersion(lines)

\* The header with a v before every tag that has none.
VersionHeader_PrefixesUnreleased(tag) ==
  IF ~HasPrefix(tag, <<"v">>) THEN HeaderOf(<<"v">> \o tag) ELSE HeaderOf(tag)

\* checker.go:172-175
VersionHeader(tag) ==
  IF ~HasPrefix(tag, <<"v">>) /\ tag # Unreleased THEN HeaderOf(<<"v">> \o tag) ELSE HeaderOf(tag)

\* The scan of checker.go:177-196 over the lines left, with the lines collected.
RECURSIVE SectionScan(_, _, _, _)
SectionScan(lines, versionHeader, inSection, sectionLines) ==
  IF lines = <<>> THEN sectionLines
  ELSE IF HasPrefix(Head(lines), versionHeader)
       THEN SectionScan(Tail(lines), versionHeader, TRUE, Append(sectionLines, Head(lines)))
  ELSE IF inSection /\ HasPrefix(Head(lines), <<"#", "#", " ", "[">>) THEN sectionLines
  ELSE IF inSection
       THEN SectionScan(Tail(lines), versionHeader, TRUE, Append(sectionLines, Head(lines)))
  ELSE SectionScan(Tail(lines), versionHeader, FALSE, sectionLines)

\* Checker.GetChangelogSection taking no lines for a section: the empty text
\* and no error.
GetChangelogSection_EmptyIsSection(lines, versionTag) ==
  LET tag == EffectiveTag(lines, versionTag)
      sectionLines == SectionScan(lines, VersionHeader(tag), FALSE, <<>>)
  IN [section |-> JoinLines(sectionLines), err |-> "nil"]

\* Checker.GetChangelogSection on a file that could be opened and read, given as
\* its lines: the section text, or the error.
GetChangelogSection(lines, versionTag) ==
  LET tag == EffectiveTag(lines, versionTag)
      sectionLines == SectionScan(lines, VersionHeader(tag), FALSE, <<>>)
  IN IF Len(sectionLines) = 0
     THEN [section |-> <<>>, err |-> "no section found"]
     ELSE [section |-> JoinLines(sectionLines), err |-> "nil"]

\* The first position at or after i where the link pattern matches, with its
\* group (checker.go:228).
RECURSIVE FirstLinkDesc(_, _)
FirstLinkDesc(line, i) ==
  IF i > Len(line) THEN <<>>
  ELSE IF LinkDescAt(line, i) # <<>> THEN LinkDescAt(line, i)
  ELSE FirstLinkDesc(line, i + 1)

\* Checker.GetPRDescriptionFromLine
GetPRDescriptionFromLine(line, prNumber) ==
  IF ~Contains(line, PRRef(prNumber)) THEN <<>>
  ELSE LET close == FirstAt(line, 4, ")")
           form1 == IF HasPrefix(line, <<"*", " ", "(">>) /\ close < Len(line)
                       /\ line[close + 1] = " "
                    THEN LinkDescAt(line, close + 2) ELSE <<>>
           form2 == IF HasPrefix(line, <<"*", " ">>) THEN LinkDescAt(line, 3) ELSE <<>>
       IN IF form1 # <<>> THEN form1
          ELSE IF form2 # <<>> THEN form2
          ELSE FirstLinkDesc(line, 1)

\* The last of the lines that contains prRef, <<>> if none does.
RECURSIVE FirstLineWith_Last(_, _)
FirstLineWith_Last(lines, prRef) ==
  IF lines = <<>> THEN <<>>
  ELSE IF Contains(lines[Len(lines)], prRef) THEN lines[Len(lines)]
  ELSE FirstLineWith_Last(SubSeq(lines, 1, Len(lines) - 1), prRef)

\* The first of the lines that contains prRef, <<>> if none does.
RECURSIVE FirstLineWith(_, _)
FirstLineWith(lines, prRef) ==
  IF lines = <<>> THEN <<>>
  ELSE IF Contains(Head(lines), prRef) THEN Head(lines)
  ELSE FirstLineWith(Tail(lines), prRef)

\* Checker.FindPRLineInSection
FindPRLineInSection(prNumber, changelogSection) ==
  FirstLineWith(ScanLines(changelogSection), PRRef(prNumber))

(***************************************************************************)
(* pkg/checker: the similarity pipeline.                                   *)
(***************************************************************************)
\* The description as the substring check reads it (checker.go:238-244).
CutAt(changelogLower, idx) ==
  IF idx # -1 THEN SubSeq(changelogLower, 1, idx) ELSE changelogLower

CutAtPeriod(changelogLower) == CutAt(changelogLower, Index(changelogLower, <<".">>))

NormalizeDesc(changelogDesc) == CutAtPeriod(ToLower(RemoveChar(changelogDesc, Backtick)))

\* The substring check that tests one direction only.
SubstringCheck_OneWay(changelogDesc, prTitle) ==
  Contains(ToLower(prTitle), NormalizeDesc(changelogDesc))

\* checker.go:246, on the two strings as normalized.
EitherContains(changelogLower, prTitleLower) ==
  \/ Contains(prTitleLower, changelogLower)
  \/ Contains(changelogLower, prTitleLower)

\* checker.go:238-246
SubstringCheck(changelogDesc, prTitle) ==
  EitherContains(NormalizeDesc(changelogDesc), ToLower(prTitle))

(***************************************************************************)
(* pkg/db: the cache store.  Both tables are keyed by (repo_owner,         *)
(* repo_name, pr_number); a table maps each key to its row or to NoRow.    *)
(***************************************************************************)
NoRow == [none |-> TRUE]

\* DB.GetPRInfo with the age test written >= : a row exactly 7 days old is
\* expired.
DBGetPRInfo_ExpiresAtTTL(cache, key, t, failed) ==
  IF failed THEN [title |-> <<>>, found |-> FALSE, err |-> "db error"]
  ELSE IF cache[key] = NoRow THEN [title |-> <<>>, found |-> FALSE, err |-> "nil"]
  ELSE IF t - cache[key].fetchedAt >= TTL THEN [title |-> <<>>, found |-> FALSE, err |-> "nil"]
  ELSE [title |-> cache[key].title, found |-> TRUE, err |-> "nil"]

\* DB.GetPRInfo with no test of the row's age.
DBGetPRInfo_NeverExpires(cache, key, t, failed) ==
  IF failed THEN [title |-> <<>>, found |-> FALSE, err |-> "db error"]
  ELSE IF cache[key] = NoRow THEN [title |-> <<>>, found |-> FALSE, err |-> "nil"]
  ELSE [title |-> cache[key].title, found |-> TRUE, err |-> "nil"]

\* DB.GetPRInfo: (title, found, err).  failed: the query returns an error other
\* than sql.ErrNoRows.
DBGetPRInfo(cache, key, t, failed) ==
  IF failed THEN [title |-> <<>>, found |-> FALSE, err |-> "db error"]
  ELSE IF cache[key] = NoRow THEN [title |-> <<>>, found |-> FALSE, err |-> "nil"]
  ELSE IF t - cache[key].fetchedAt > TTL THEN [title |-> <<>>, found |-> FALSE, err |-> "nil"]
  ELSE [title |-> cache[key].title, found |-> TRUE, err |-> "nil"]

\* DB.StorePRInfo: the table after INSERT OR REPLACE (unchanged if Exec fails).
DBStorePRInfo(cache, key, title, t, failed) ==
  IF failed THEN cache
  ELSE [cache EXCEPT ![key] = [title |-> title, fetchedAt |-> t]]

\* DB.GetValidationResult without the comparison of the stored description with
\* the one asked for.
DBGetValidationResult_IgnoresDesc(cache, key, changelogDesc, t, failed) ==
  IF failed THEN [status |-> 0, found |-> FALSE, err |-> "db error"]
  ELSE IF cache[key] = NoRow THEN [status |-> 0, found |-> FALSE, err |-> "nil"]
  ELSE IF t - cache[key].lastValidated > TTL
       THEN [status |-> 0, found |-> FALSE, err |-> "nil"]
  ELSE [status |-> cache[key].status, found |-> TRUE, err |-> "nil"]

\* DB.GetValidationResult: (status, cached, err).
DBGetValidationResult(cache, key, changelogDesc, t, failed) ==
  IF failed THEN [status |-> 0, found |-> FALSE, err |-> "db error"]
  ELSE IF cache[key] = NoRow THEN [status |-> 0, found |-> FALSE, err |-> "nil"]
  ELSE IF cache[key].changelogDesc # changelogDesc
       THEN [status |-> 0, found |-> FALSE, err |-> "nil"]
  ELSE IF t - cache[key].lastValidated > TTL
       THEN [status |-> 0, found |-> FALSE, err |-> "nil"]
  ELSE [status |-> cache[key].status, found |-> TRUE, err |-> "nil"]

\* DB.StoreValidationResult with INSERT OR IGNORE: an existing row is kept.
DBStoreValidationResult_KeepsRow(cache, key, changelogDesc, status, t, failed) ==
  IF failed \/ cache[key] # NoRow THEN cache
  ELSE [cache EXCEPT ![key] =
          [changelogDesc |-> changelogDesc, status |-> status, lastValidated |-> t]]

\* DB.StoreValidationResult as an UPDATE of the status and the instant of an
\* existing row, an INSERT otherwise: the description of an existing row stays.
DBStoreValidationResult_KeepsDesc(cache, key, changelogDesc, status, t, failed) ==
  IF failed THEN cache
  ELSE IF cache[key] = NoRow
  THEN [cache EXCEPT ![key] =
          [changelogDesc |-> changelogDesc, status |-> status, lastValidated |-> t]]
  ELSE [cache EXCEPT ![key].status = status, ![key].lastValidated = t]

\* DB.StoreValidationResult
DBStoreValidationResult(cache, key, changelogDesc, status, t, failed) ==
  IF failed THEN cache
  ELSE [cache EXCEPT ![key] =
          [changelogDesc |-> changelogDesc, status |-> status, lastValidated |-> t]]

(***************************************************************************)
(* pkg/github: the PR-metadata client.                                     *)
(***************************************************************************)
\* What httpClient.Do and the decoding of its response come to: a transport
\* error; 403/429 with an X-RateLimit-Reset header that parses (resetTimes: the
\* instants it may name); 403/429 without one; another status than 200; a body
\* that cannot be read or decoded; 200 with one of the titles.
Responses(resetTimes, titles) ==
  {[kind |-> "transport"], [kind |-> "limited no reset"], [kind |-> "status"],
   [kind |-> "bad body"]}
    \cup {[kind |-> "limited", reset |-> r] : r \in resetTimes}
    \cup {[kind |-> "ok", title |-> ti] : ti \in titles}

\* The response of a call that sends no request.
NoResponse == [kind |-> "none"]

\* What Client.GetPRInfo returns, and leaves, when nothing has happened yet: no
\* title, no error, the rate-limit fields and the title table as they were, no
\* failed read, no request sent, no failed write, no fault.
ClientSame(cl, cache) ==
  [title |-> <<>>, err |-> "nil", rateLimited |-> cl.rateLimited,
   resetTime |-> cl.resetTime, cache |-> cache, readFailed |-> FALSE, sent |-> FALSE,
   writeFailed |-> FALSE, panic |-> FALSE]

\* The rate-limit check (types.go:104): c.rateLimited && time.Now().Before(c.resetTime).
ClientRejects(cl, t) == cl.rateLimited /\ t < cl.resetTime

\* The cache check (types.go:109-114): c.db.GetPRInfo returned a title and no error.
ClientCached(cache, key, t, readFailed) ==
  LET got == DBGetPRInfo(cache, key, t, readFailed)
  IN got.err = "nil" /\ got.found

\* Whether Client.GetPRInfo gets past the rate-limit check and the cache and
\* sends its request (types.go:104-114).
SendsRequest(cl, cache, key, t, readFailed) ==
  /\ ~ClientRejects(cl, t)
  /\ cl.hasDB
  /\ ~ClientCached(cache, key, t, readFailed)

\* The request and what follows it, without the write of the title row.
ClientFetch_NoStore(cl, cache, key, t, resp, writeFailed) ==
  LET sent == [ClientSame(cl, cache) EXCEPT !.sent = TRUE]
  IN CASE resp.kind = "transport" -> [sent EXCEPT !.err = "transport error"]
       [] resp.kind = "limited" ->
            [sent EXCEPT !.err = "rate limited until",
                         !.rateLimited = TRUE,
                         !.resetTime = resp.reset]
       [] resp.kind = "limited no reset" ->
            [sent EXCEPT !.err = "rate limited by GitHub API"]
       [] resp.kind = "status" -> [sent EXCEPT !.err = "GitHub API returned status"]
       [] resp.kind = "bad body" -> [sent EXCEPT !.err = "decode error"]
       [] resp.kind = "ok" -> [sent EXCEPT !.title = resp.title]

\* The request and what follows it, with the flag set on every 403 or 429
\* response, also on one whose X-RateLimit-Reset header is absent or does not
\* parse.
ClientFetch_FlagWithoutReset(cl, cache, key, t, resp, writeFailed) ==
  LET sent == [ClientSame(cl, cache) EXCEPT !.sent = TRUE]
  IN CASE resp.kind = "transport" -> [sent EXCEPT !.err = "transport error"]
       [] resp.kind = "limited" ->
            [sent EXCEPT !.err = "rate limited until",
                         !.rateLimited = TRUE,
                         !.resetTime = resp.reset]
       [] resp.kind = "limited no reset" ->
            [sent EXCEPT !.err = "rate limited by GitHub API", !.rateLimited = TRUE]
       [] resp.kind = "status" -> [sent EXCEPT !.err = "GitHub API returned status"]
       [] resp.kind = "bad body" -> [sent EXCEPT !.err = "decode error"]
       [] resp.kind = "ok" ->
            [sent EXCEPT !.title = resp.title,
                         !.writeFailed = writeFailed,
                         !.cache = DBStorePRInfo(cache, key, resp.title, t, writeFailed)]

\* The request and what follows it (types.go:116-168); resp: the response.
ClientFetch(cl, cache, key, t, resp, writeFailed) ==
  LET sent == [ClientSame(cl, cache) EXCEPT !.sent = TRUE]
  IN CASE resp.kind = "transport" -> [sent EXCEPT !.err = "transport error"]
       [] resp.kind = "limited" ->
            [sent EXCEPT !.err = "rate limited until",
                         !.rateLimited = TRUE,
                         !.resetTime = resp.reset]
       [] resp.kind = "limited no reset" ->
            [sent EXCEPT !.err = "rate limited by GitHub API"]
       [] resp.kind = "status" -> [sent EXCEPT !.err = "GitHub API returned status"]
       [] resp.kind = "bad body" -> [sent EXCEPT !.err = "decode error"]
       [] resp.kind = "ok" ->
            [sent EXCEPT !.title = resp.title,
                         !.writeFailed = writeFailed,
                         !.cache = DBStorePRInfo(cache, key, resp.title, t, writeFailed)]

\* Client.GetPRInfo with the cache read before the rate-limit check: a cached
\* title is returned while the client is rate limited.
ClientGetPRInfo_CacheFirst(cl, cache, key, t, resp, readFailed, writeFailed) ==
  IF ~cl.hasDB THEN [ClientSame(cl, cache) EXCEPT !.err = "panic", !.panic = TRUE]
  ELSE IF ClientCached(cache, key, t, readFailed)
  THEN [ClientSame(cl, cache) EXCEPT !.title = cache[key].title]
  ELSE IF ClientRejects(cl, t)
  THEN [ClientSame(cl, cache) EXCEPT !.err = "rate limited until", !.readFailed = readFailed]
  ELSE [ClientFetch(cl, cache, key, t, resp, writeFailed) EXCEPT !.readFailed = readFailed]

\* Client.GetPRInfo that returns the error of its read of the title row.
ClientGetPRInfo_ReadErrorFails(cl, cache, key, t, resp, readFailed, writeFailed) ==
  IF ClientRejects(cl, t)
  THEN [ClientSame(cl, cache) EXCEPT !.err = "rate limited until"]
  ELSE IF ~cl.hasDB THEN [ClientSame(cl, cache) EXCEPT !.err = "panic", !.panic = TRUE]
  ELSE IF readFailed
  THEN [ClientSame(cl, cache) EXCEPT !.err = "db error", !.readFailed = TRUE]
  ELSE IF ClientCached(cache, key, t, readFailed)
  THEN [ClientSame(cl, cache) EXCEPT !.title = cache[key].title]
  ELSE ClientFetch(cl, cache, key, t, resp, writeFailed)

\* Client.GetPRInfo(owner, repo, prNumber) at the instant t: the title and error
\* returned, the client's rate-limit fields and the title table after the call,
\* whether c.db.GetPRInfo returned an error, whether a request was sent, whether
\* c.db.StorePRInfo returned an error, and whether the call faulted (a nil *db.DB is dereferenced by c.db.GetPRInfo).
\* cl: the client's fields; resp: the response to the request, if one is sent;
\* readFailed, writeFailed: the store's failures.
ClientGetPRInfo(cl, cache, key, t, resp, readFailed, writeFailed) ==
  IF ClientRejects(cl, t)
  THEN [ClientSame(cl, cache) EXCEPT !.err = "rate limited until"]
  ELSE IF ~cl.hasDB THEN [ClientSame(cl, cache) EXCEPT !.err = "panic", !.panic = TRUE]
  ELSE IF ClientCached(cache, key, t, readFailed)
  THEN [ClientSame(cl, cache) EXCEPT !.title = cache[key].title]
  ELSE [ClientFetch(cl, cache, key, t, resp, writeFailed) EXCEPT !.readFailed = readFailed]

(***************************************************************************)
(* The changelogs, repository and provider the model runs on.              *)
(***************************************************************************)
RepoOwner == "cosmos"
RepoName == "ibc-go"
KeyOf(prNumber) == <<RepoOwner, RepoName, prNumber>>

\* "* (c) [\#<digits>](u) <text>" and "* [\#<digits>](u) <text>"
EntryWithComponent(digits, text) ==
  <<"*", " ", "(", "c", ")", " ", "[", "\\", "#">> \o digits \o <<"]", "(", "u", ")", " ">> \o text
Entry(digits, text) ==
  <<"*", " ", "[", "\\", "#">> \o digits \o <<"]", "(", "u", ")", " ">> \o text
\* "* [\#<digits>] <text>": a marker without its link.
EntryWithoutLink(digits, text) ==
  <<"*", " ", "[", "\\", "#">> \o digits \o <<"]", " ">> \o text

FixA == <<"F", "i", "x", " ", "a">>
FixC == <<"F", "i", "x", " ", "c">>
AddB == <<"A", "d", "d", " ", "b">>

\* A changelog file with these lines, and one that cannot be opened.
File(lines) == [missing |-> FALSE, lines |-> lines]
NoFile == [missing |-> TRUE, lines |-> <<>>]

\* Two states of one changelog: in the second the description of PR 1 has
\* changed, and entries were added whose marker has a leading zero or no link.
ChangelogA ==
  <<HeaderOf(Unreleased), EntryWithComponent(<<"1">>, FixA), Entry(<<"2">>, AddB)>>
ChangelogB ==
  <<HeaderOf(Unreleased), EntryWithComponent(<<"1">>, FixC), Entry(<<"0", "7">>, <<"x">>),
    EntryWithoutLink(<<"3">>, <<"y">>), Entry(<<"2">>, AddB)>>
\* A section without any PR reference, and an empty file.
ChangelogNoPR == <<HeaderOf(Unreleased), <<"*", " ", "n", "o", "n", "e">>>>
ChangelogEmpty == <<>>

\* A file without any header; one with two released versions and no Unreleased
\* section; one whose only line is the Unreleased header; one whose Unreleased
\* header is followed at once by the header of a version.
Version1 == <<"1", ".", "0", ".", "0">>
Version2 == <<"2", ".", "0", ".", "0">>
ChangelogNoHeader == <<<<"t">>>>
ChangelogVersions == <<HeaderOf(<<"v">> \o Version2), <<"t">>, HeaderOf(<<"v">> \o Version1)>>
ChangelogHeaderOnly == <<HeaderOf(Unreleased)>>
ChangelogHeaderThenHeader == <<HeaderOf(Unreleased), HeaderOf(<<"v">> \o Version1), <<"t">>>>

Changelogs ==
  {File(ChangelogA), File(ChangelogB), File(ChangelogNoPR), File(ChangelogEmpty), NoFile,
   File(ChangelogNoHeader), File(ChangelogVersions), File(ChangelogHeaderOnly),
   File(ChangelogHeaderThenHeader)}

\* The sections and PR numbers CheckPR is called with.
Sections == {GetChangelogSection(ChangelogA, <<>>).section,
             GetChangelogSection(ChangelogB, <<>>).section}
PRNumbers == {1, 2, 3, 7}
Keys == {KeyOf(n) : n \in PRNumbers}

\* The parse of each of these sections for each of these PR numbers, and the
\* verdict of the substring check for each description and title, computed once.
RECURSIVE LinesOf(_)
LinesOf(calls) ==
  IF calls = {} THEN <<>>
  ELSE LET c == CHOOSE c \in calls : TRUE
       IN (c :> FindPRLineInSection(c[1], c[2])) @@ LinesOf(calls \ {c})
RECURSIVE DescriptionsOf(_)
DescriptionsOf(calls) ==
  IF calls = {} THEN <<>>
  ELSE LET c == CHOOSE c \in calls : TRUE
       IN (c :> GetPRDescriptionFromLine(FindPRLineInSection(c[1], c[2]), c[1]))
            @@ DescriptionsOf(calls \ {c})
LineTable == LinesOf(PRNumbers \X Sections)
DescTable == DescriptionsOf(PRNumbers \X Sections)

\* The title the provider has for each PR.
GitHubTitle(prNumber) ==
  IF prNumber = 1 THEN <<"f", "i", "x", " ", "a", " ", "b">> ELSE <<"n", "e", "w">>

RECURSIVE MatchesOf(_)
MatchesOf(pairs) ==
  IF pairs = {} THEN <<>>
  ELSE LET c == CHOOSE c \in pairs : TRUE
       IN (c :> SubstringCheck(c[1], c[2])) @@ MatchesOf(pairs \ {c})
MatchTable ==
  MatchesOf({DescTable[c] : c \in DOMAIN DescTable} \X {GitHubTitle(n) : n \in PRNumbers})

\* The substring check, read from the table where the table has it.
SubstringMatch(changelogDesc, prTitle) ==
  IF <<changelogDesc, prTitle>> \in DOMAIN MatchTable
  THEN MatchTable[<<changelogDesc, prTitle>>]
  ELSE SubstringCheck(changelogDesc, prTitle)

\* The instants at which the clock is read, in days: rows written at 0 and 1 are
\* 6, 7 and 8 days old at the later ones.
Instants == {0, 1, TTL, TTL + 1}

\* The instants an X-RateLimit-Reset header names.
ResetTimes == {TTL}

\* The limits CheckChangelog is called with.
Limits == {0, 2, 3}

\* The failures of the store during one call: which of its four operations fail.
StoreOps == {"read verdict", "write verdict", "read title", "write title"}

\* At most MaxFaults operations of the store fail during one call.
Failings == {f \in SUBSET StoreOps : Cardinality(f) <= MaxFaults}

\* The answers of OpenAIClient.CheckSimilarity: (true, nil), (false, nil), an error.
OracleAnswers == {"yes", "no", "error"}

\* The oracle called whenever there is one.
OracleCalled_WhenConfigured(changelogDesc, prTitle, configured) == configured

\* Whether Checker.CheckSimilarity calls the oracle.
OracleCalled(changelogDesc, prTitle, configured) ==
  ~SubstringMatch(changelogDesc, prTitle) /\ configured

\* The similarity check that gives up when the oracle fails.
CheckSimilarity_NotFoundOnError(changelogDesc, prTitle, configured, answer) ==
  IF SubstringMatch(changelogDesc, prTitle) THEN StatusGoodMatch
  ELSE IF configured /\ answer = "yes" THEN StatusGoodMatch
  ELSE IF configured /\ answer = "error" THEN StatusNotFound
  ELSE StatusPotentialMismatch

\* The similarity check that takes a failed oracle call for a yes.
CheckSimilarity_TrustsFailedOracle(changelogDesc, prTitle, configured, answer) ==
  IF SubstringMatch(changelogDesc, prTitle) THEN StatusGoodMatch
  ELSE IF configured /\ answer \in {"yes", "error"} THEN StatusGoodMatch
  ELSE StatusPotentialMismatch

\* Checker.CheckSimilarity, with the answer the oracle gives if it is called.
CheckSimilarity(changelogDesc, prTitle, configured, answer) ==
  IF SubstringMatch(changelogDesc, prTitle) THEN StatusGoodMatch
  ELSE IF configured /\ answer = "yes" THEN StatusGoodMatch
  ELSE StatusPotentialMismatch

(***************************************************************************)
(* pkg/checker: CheckPR.                                                   *)
(***************************************************************************)
\* What a CheckPR call did, beside its result.
\* probed: the verdict table was read, probeFailed: the read returned an error,
\* hit: it returned a valid verdict; lookup:
\* Client.GetPRInfo was called, err: the error it returned, readFailed: its read
\* of the title row returned an error, sent: it sent a request, writeFailed: its
\* write of the title row failed; compared:
\* CheckSimilarity ran, oracle: it asked the oracle, answer: what the oracle
\* answered; stored:
\* DB.StoreValidationResult was called, storeFailed: it returned an error.
NoTrace == [probed |-> FALSE, probeFailed |-> FALSE, hit |-> FALSE, lookup |-> FALSE, err |-> "nil",
            readFailed |-> FALSE, sent |-> FALSE,
            writeFailed |-> FALSE, compared |-> FALSE, oracle |-> FALSE, answer |-> "none",
            stored |-> FALSE, storeFailed |-> FALSE]

\* types.PRResult
PRResult(number, changelogDesc, prTitle, status, error) ==
  [Number |-> number, ChangelogDesc |-> changelogDesc, PRTitle |-> prTitle,
   Status |-> status, Error |-> error]

\* The description CheckPR works with: that of the first line with the PR's marker
\* (checker.go:287-300); <<>> if there is no such line or no description.
DescriptionInSection(prNumber, changelogSection) ==
  IF LineTable[<<prNumber, changelogSection>>] = <<>> THEN <<>> ELSE DescTable[<<prNumber, changelogSection>>]

\* The result on a valid cached verdict, with the status set to NotFound when
\* the lookup fails, as on the path without a cached verdict.
HitResult_NotFoundOnError(prNumber, desc, cached, got) ==
  PRResult(prNumber, desc, got.title, IF got.err # "nil" THEN StatusNotFound ELSE cached,
           got.err)

\* The result on a valid cached verdict (checker.go:309-324): the cached status;
\* the title if the lookup returned one, else the lookup's error.
HitResult(prNumber, desc, cached, got) ==
  PRResult(prNumber, desc, got.title, cached, got.err)

\* The result when the lookup fails, with the status left at its zero value.
LookupFailedResult_StatusUnset(prNumber, desc, got) ==
  PRResult(prNumber, desc, <<>>, StatusGoodMatch, got.err)

\* The result when the lookup fails, with the error not put into the result.
LookupFailedResult_ErrorDropped(prNumber, desc, got) ==
  PRResult(prNumber, desc, <<>>, StatusNotFound, "nil")

\* The result when no cached verdict is used and the lookup fails
\* (checker.go:329-334).
LookupFailedResult(prNumber, desc, got) ==
  PRResult(prNumber, desc, <<>>, StatusNotFound, got.err)

\* CheckPR from its title lookup on, with the verdict row written again, at the
\* current instant, when its verdict is used.
CheckPRLookedUp_RefreshesOnHit(prNumber, desc, st, key, failing, hit, cached, got, status, asked) ==
  LET looked == [result |-> PRResult(prNumber, desc, <<>>, StatusGoodMatch, "nil"),
                 prCache |-> got.cache, valCache |-> st.valCache,
                 rateLimited |-> got.rateLimited, resetTime |-> got.resetTime,
                 panic |-> got.panic,
                 trace |-> [NoTrace EXCEPT !.probed = st.checkerDB,
                                           !.probeFailed = st.checkerDB /\ "read verdict" \in failing,
                                           !.hit = hit,
                                           !.lookup = TRUE, !.err = got.err,
                                           !.readFailed = got.readFailed,
                                           !.sent = got.sent,
                                           !.writeFailed = got.writeFailed]]
  IN IF got.panic THEN looked
     ELSE IF hit
     THEN [looked EXCEPT !.result = HitResult(prNumber, desc, cached, got),
                         !.valCache = DBStoreValidationResult(st.valCache, key, desc, cached,
                                                              st.now, FALSE)]
     ELSE IF got.err # "nil"
     THEN [looked EXCEPT !.result = LookupFailedResult(prNumber, desc, got)]
     ELSE [looked EXCEPT
             !.result = PRResult(prNumber, desc, got.title, status, "nil"),
             !.valCache = IF st.checkerDB
                          THEN DBStoreValidationResult(st.valCache, key, desc, status, st.now,
                                                       "write verdict" \in failing)
                          ELSE st.valCache,
             !.trace.compared = TRUE,
             !.trace.oracle = asked,
             !.trace.stored = st.checkerDB,
             !.trace.storeFailed = st.checkerDB /\ "write verdict" \in failing]

\* CheckPR from its title lookup on (checker.go:317-350).  hit, cached: whether
\* the verdict table holds a valid verdict, and that verdict; got: what
\* Client.GetPRInfo came to; status, asked: what CheckSimilarity returns for the
\* title, and whether it asks the oracle.
CheckPRLookedUp(prNumber, desc, st, key, failing, hit, cached, got, status, asked) ==
  LET looked == [result |-> PRResult(prNumber, desc, <<>>, StatusGoodMatch, "nil"),
                 prCache |-> got.cache, valCache |-> st.valCache,
                 rateLimited |-> got.rateLimited, resetTime |-> got.resetTime,
                 panic |-> got.panic,
                 trace |-> [NoTrace EXCEPT !.probed = st.checkerDB,
                                           !.probeFailed = st.checkerDB /\ "read verdict" \in failing,
                                           !.hit = hit,
                                           !.lookup = TRUE, !.err = got.err,
                                           !.readFailed = got.readFailed,
                                           !.sent = got.sent,
                                           !.writeFailed = got.writeFailed]]
  IN IF got.panic THEN looked
     ELSE IF hit
     THEN [looked EXCEPT !.result = HitResult(prNumber, desc, cached, got)]
     ELSE IF got.err # "nil"
     THEN [looked EXCEPT !.result = LookupFailedResult(prNumber, desc, got)]
     ELSE [looked EXCEPT
             !.result = PRResult(prNumber, desc, got.title, status, "nil"),
             !.valCache = IF st.checkerDB
                          THEN DBStoreValidationResult(st.valCache, key, desc, status, st.now,
                                                       "write verdict" \in failing)
                          ELSE st.valCache,
             !.trace.compared = TRUE,
             !.trace.oracle = asked,
             !.trace.stored = st.checkerDB,
             !.trace.storeFailed = st.checkerDB /\ "write verdict" \in failing]

\* The call r with the oracle's answer noted if the oracle was asked.
Answered(r, answer) ==
  [r EXCEPT !.trace.answer = IF r.trace.oracle THEN answer ELSE "none"]

\* The probe of the verdict table that is never taken for a hit.
CheckPRDescribed_NeverHit(prNumber, desc, st, key, failing, answer, probe, got) ==
  Answered(CheckPRLookedUp(prNumber, desc, st, key, failing,
                           FALSE, probe.status, got,
                           CheckSimilarity(desc, got.title, st.hasOracle, answer),
                           OracleCalled(desc, got.title, st.hasOracle)),
           answer)

\* CheckPR from its probe of the verdict table on (checker.go:302-350), for the
\* description desc.  probe: what DB.GetValidationResult returns if it is called.
CheckPRDescribed(prNumber, desc, st, key, failing, answer, probe, got) ==
  Answered(CheckPRLookedUp(prNumber, desc, st, key, failing,
                           st.checkerDB /\ probe.err = "nil" /\ probe.found, probe.status, got,
                           CheckSimilarity(desc, got.title, st.hasOracle, answer),
                           OracleCalled(desc, got.title, st.hasOracle)),
           answer)

\* Checker.CheckPR with the status of the result left at its zero value when the
\* description cannot be extracted.
CheckPR_DescriptionStatusUnset(prNumber, changelogSection, st, key, failing, resp, answer) ==
  LET unchanged == [result |-> PRResult(prNumber, <<>>, <<>>, StatusNotFound, "nil"),
                    prCache |-> st.prCache, valCache |-> st.valCache,
                    rateLimited |-> st.client.rateLimited,
                    resetTime |-> st.client.resetTime,
                    panic |-> FALSE, trace |-> NoTrace]
  IN IF LineTable[<<prNumber, changelogSection>>] = <<>>
     THEN [unchanged EXCEPT !.result.Error = "not found in changelog section"]
     ELSE IF DescTable[<<prNumber, changelogSection>>] = <<>>
     THEN [unchanged EXCEPT !.result.Error = "couldn't extract description",
                            !.result.Status = StatusGoodMatch]
     ELSE CheckPRDescribed(prNumber, DescTable[<<prNumber, changelogSection>>], st, key, failing, answer,
                           DBGetValidationResult(st.valCache, key,
                                                 DescTable[<<prNumber, changelogSection>>], st.now,
                                                 "read verdict" \in failing),
                           ClientGetPRInfo(st.client, st.prCache, key, st.now, resp,
                                           "read title" \in failing,
                                           "write title" \in failing))

\* Checker.CheckPR(prNumber, changelogSection) at the instant st.now: the result,
\* the tables and the client's rate-limit fields after the call, whether the call
\* faulted, and what it did.
\* st: the checker's and its client's fields and the two tables; key: (repoOwner,
\* repoName, prNumber); failing: the store operations that fail during the call;
\* resp: the provider's response if a request is sent; answer: the oracle's
\* answer if it is asked.
CheckPR(prNumber, changelogSection, st, key, failing, resp, answer) ==
  LET unchanged == [result |-> PRResult(prNumber, <<>>, <<>>, StatusNotFound, "nil"),
                    prCache |-> st.prCache, valCache |-> st.valCache,
                    rateLimited |-> st.client.rateLimited,
                    resetTime |-> st.client.resetTime,
                    panic |-> FALSE, trace |-> NoTrace]
  IN IF LineTable[<<prNumber, changelogSection>>] = <<>>
     THEN [unchanged EXCEPT !.result.Error = "not found in changelog section"]
     ELSE IF DescTable[<<prNumber, changelogSection>>] = <<>>
     THEN [unchanged EXCEPT !.result.Error = "couldn't extract description"]
     ELSE CheckPRDescribed(prNumber, DescTable[<<prNumber, changelogSection>>], st, key, failing, answer,
                           DBGetValidationResult(st.valCache, key,
                                                 DescTable[<<prNumber, changelogSection>>], st.now,
                                                 "read verdict" \in failing),
                           ClientGetPRInfo(st.client, st.prCache, key, st.now, resp,
                                           "read title" \in failing,
                                           "write title" \in failing))

(***************************************************************************)
(* pkg/checker: CheckChangelog.                                            *)
(***************************************************************************)
\* The selection with the middle taken at (len - 1) / 2.
SelectPRs_MiddleBelow(numbers, limit) ==
  IF limit > 0 /\ limit < Len(numbers)
  THEN IF limit = 3
       THEN LET middle == (Len(numbers) - 1) \div 2
            IN <<numbers[1], numbers[middle + 1], numbers[Len(numbers)]>>
       ELSE SubSeq(numbers, 1, limit)
  ELSE numbers

\* The PR numbers CheckChangelog goes on to check (checker.go:377-389).
SelectPRs(numbers, limit) ==
  IF limit > 0 /\ limit < Len(numbers)
  THEN IF limit = 3
       THEN LET middle == Len(numbers) \div 2
            IN <<numbers[1], numbers[middle + 1], numbers[Len(numbers)]>>
       ELSE SubSeq(numbers, 1, limit)
  ELSE numbers

\* CheckChangelog up to its loop, without the test for an empty list of PR
\* numbers.
BeginCheckChangelog_NoEmptyTest(changelogFile, versionTag, limit) ==
  IF changelogFile.missing
  THEN [section |-> <<>>, prNumbers |-> <<>>, err |-> "open error"]
  ELSE LET got == GetChangelogSection(changelogFile.lines, versionTag)
           numbers == ExtractPRNumbers(got.section)
       IN IF got.err # "nil"
          THEN [section |-> <<>>, prNumbers |-> <<>>, err |-> got.err]
          ELSE [section |-> got.section, prNumbers |-> SelectPRs(numbers, limit),
                err |-> "nil"]

\* CheckChangelog up to its loop (checker.go:355-389): the section, the PR numbers
\* to check and the error it returns at once, "nil" if it goes on.
BeginCheckChangelog(changelogFile, versionTag, limit) ==
  IF changelogFile.missing
  THEN [section |-> <<>>, prNumbers |-> <<>>, err |-> "open error"]
  ELSE LET got == GetChangelogSection(changelogFile.lines, versionTag)
           numbers == ExtractPRNumbers(got.section)
       IN IF got.err # "nil"
          THEN [section |-> <<>>, prNumbers |-> <<>>, err |-> got.err]
          ELSE IF Len(numbers) = 0
          THEN [section |-> got.section, prNumbers |-> <<>>,
                err |-> "no PR numbers found in the changelog section"]
          ELSE [section |-> got.section, prNumbers |-> SelectPRs(numbers, limit),
                err |-> "nil"]

(***************************************************************************)
(* The state.                                                              *)
(***************************************************************************)
VARIABLES
  now,          \* the clock, in days
  prCache,      \* table github_pr_cache: key -> [title, fetchedAt] or NoRow
  valCache,     \* table validation_cache: key -> [changelogDesc, status, lastValidated]
  rateLimited,  \* Client.rateLimited
  resetTime,    \* Client.resetTime
  clientDB,     \* Client.db # nil
  checkerDB,    \* Checker.db # nil
  hasOracle,    \* Checker.openAIClient # nil
  pc,           \* "idle", "checking" (in CheckChangelog's loop), "returned", "panicked"
  call,         \* the call in progress or just returned: its name and arguments
  ret,          \* what the call returned, and what it did
  section,      \* CheckChangelog: the section found
  prNumbers,    \* CheckChangelog: the PR numbers to check
  results,      \* CheckChangelog: the results so far
  \* close-reopened-issues (one run of the script):
  dryRun,       \* CONFIG.dryRun
  closeComment, \* CONFIG.closeComment is set
  at,           \* where the script is: "main", "prompt", "prompt again", "retry",
                \* "comment", "update", "done", "exited"
  reopenedIssues,        \* the issue numbers findReopenedIssues returned
  item,                  \* the position of the loop of closeReopenedIssues in them
  closeAllWithoutPrompt, \* the flag of closeReopenedIssues
  lastAnswer,   \* the last answer askForConfirmation resolved to
  prompts,      \* issue number -> the prompts issued for it
  accepted,     \* issue number -> the valid answer given for it, or NoAnswer
  opened,       \* the issues opened in the browser
  commentCalls, \* the issues issues.createComment was called for
  updateCalls,  \* the issues issues.update was called for
  closed,       \* the issues issues.update closed
  listed        \* the dry run printed the issues

script == <<dryRun, closeComment, at, reopenedIssues, item, closeAllWithoutPrompt, lastAnswer,
            prompts, accepted, opened, commentCalls, updateCalls, closed, listed>>

checker == <<now, prCache, valCache, rateLimited, resetTime, clientDB, checkerDB, hasOracle,
             pc, call, ret, section, prNumbers, results>>

vars == <<now, prCache, valCache, rateLimited, resetTime, clientDB, checkerDB, hasOracle,
          pc, call, ret, section, prNumbers, results,
          dryRun, closeComment, at, reopenedIssues, item, closeAllWithoutPrompt, lastAnswer,
          prompts, accepted, opened, commentCalls, updateCalls, closed, listed>>

store == <<prCache, valCache>>
config == <<clientDB, checkerDB, hasOracle>>
batch == <<section, prNumbers, results>>

NoCall == [op |-> "none"]
NoRet == [none |-> TRUE]

Client == [rateLimited |-> rateLimited, resetTime |-> resetTime, hasDB |-> clientDB]

CheckerState ==
  [client |-> Client, checkerDB |-> checkerDB, hasOracle |-> hasOracle,
   prCache |-> prCache, valCache |-> valCache, now |-> now]

\* The issue numbers of the repository's reopened issues.
IssueNumbers == 1..MaxReopened

\* No answer has been given.
NoAnswer == <<"-">>

\* The script close-reopened-issues with its CONFIG, before main runs.
InitScript(dry, comment) ==
  /\ dryRun = dry
  /\ closeComment = comment
  /\ at = "main"
  /\ reopenedIssues = <<>>
  /\ item = 0
  /\ closeAllWithoutPrompt = FALSE
  /\ lastAnswer = NoAnswer
  /\ prompts = [n \in IssueNumbers |-> 0]
  /\ accepted = [n \in IssueNumbers |-> NoAnswer]
  /\ opened = {}
  /\ commentCalls = {}
  /\ updateCalls = {}
  /\ closed = {}
  /\ listed = FALSE

\* NewDB, NewClient, NewChecker: empty tables unless a cache file is left from
\* an earlier run (the model starts from none), no rate limit.
InitChecker ==
  /\ now = 0
  /\ prCache = [k \in Keys |-> NoRow]
  /\ valCache = [k \in Keys |-> NoRow]
  /\ rateLimited = FALSE
  /\ resetTime = 0
  /\ pc = "idle"
  /\ call = NoCall
  /\ ret = NoRet
  /\ section = <<>>
  /\ prNumbers = <<>>
  /\ results = <<>>

\* The changelog checker constructed; the script, with the CONFIG of its source
\* (README.md:101-108), not run.
InitState == InitChecker /\ InitScript(FALSE, TRUE)

Init ==
  /\ InitState
  /\ clientDB \in BOOLEAN
  /\ checkerDB \in BOOLEAN
  /\ hasOracle \in BOOLEAN

\* Time passes between two calls.
Tick ==
  /\ pc = "idle"
  /\ \E t \in Instants : t > now /\ now' = t
  /\ UNCHANGED <<store, rateLimited, resetTime, config, script, pc, call, ret, batch>>

\* The caller takes the returned value.
Return ==
  /\ pc = "returned"
  /\ pc' = "idle"
  /\ call' = NoCall
  /\ ret' = NoRet
  /\ section' = <<>>
  /\ prNumbers' = <<>>
  /\ results' = <<>>
  /\ UNCHANGED <<now, store, rateLimited, resetTime, config, script>>

\* The responses to a request for the title of prNumber.
ResponsesFor(prNumber) == Responses(ResetTimes, {GitHubTitle(prNumber)})

\* The state after a CheckPR call that came to r.
AfterCheckPR(r) ==
  /\ prCache' = r.prCache
  /\ valCache' = r.valCache
  /\ rateLimited' = r.rateLimited
  /\ resetTime' = r.resetTime

\* The operations of the store that a call with this trace found failing.
FailedOps(trace) ==
  {op \in StoreOps : \/ op = "read verdict" /\ trace.probeFailed
                     \/ op = "read title" /\ trace.readFailed
                     \/ op = "write title" /\ trace.writeFailed
                     \/ op = "write verdict" /\ trace.storeFailed}

\* The outcomes of a CheckPR call that comes to unanswered when the oracle gives
\* no answer: none if some operation in f is one the call does not get to (the
\* call is then the one with the failures it met), else that outcome if the
\* oracle is not asked, else one for each answer.
OutcomesAnswered(prNumber, sec, st, key, f, resp, unanswered) ==
  IF FailedOps(unanswered.trace) # f THEN {}
  ELSE IF unanswered.trace.oracle
  THEN {CheckPR(prNumber, sec, st, key, f, resp, answer) : answer \in OracleAnswers}
  ELSE {unanswered}

\* The responses that let a call with the failures f get to each operation in
\* f: the store is written only after a response with a title (types.go:164,
\* checker.go:343).
ResponsesUnder(prNumber, f) ==
  IF f \cap {"write title", "write verdict"} = {} THEN ResponsesFor(prNumber)
  ELSE {resp \in ResponsesFor(prNumber) : resp.kind = "ok"}

\* The inputs of one CheckPR call, each drawn only if the call consumes it (the
\* failures of the store only if the call gets as far as the store), and what
\* the call comes to.
CheckPROutcomes(prNumber, sec) ==
  LET st == CheckerState
      key == KeyOf(prNumber)
      described == DescriptionInSection(prNumber, sec) # <<>>
      sends(f) == /\ described
                  /\ SendsRequest(Client, prCache, key, now, "read title" \in f)
  IN UNION {UNION {OutcomesAnswered(prNumber, sec, st, key, f, resp,
                                    CheckPR(prNumber, sec, st, key, f, resp, "none")) :
                     resp \in IF sends(f) THEN ResponsesUnder(prNumber, f) ELSE {NoResponse}} :
            f \in IF described THEN Failings ELSE {{}}}

\* A call of Checker.CheckPR(prNumber, section).
CallCheckPR ==
  /\ pc = "idle"
  /\ \E prNumber \in PRNumbers, sec \in Sections :
       \E r \in CheckPROutcomes(prNumber, sec) :
         /\ AfterCheckPR(r)
         /\ call' = [op |-> "CheckPR", prNumber |-> prNumber, section |-> sec]
         /\ ret' = [result |-> r.result, trace |-> r.trace]
         /\ pc' = IF r.panic THEN "panicked" ELSE "returned"
  /\ UNCHANGED <<now, config, script, batch>>

Next == CallCheckPR \/ Return \/ Tick

Spec == Init /\ [][Next]_vars

(***************************************************************************)
(* CheckChangelog, one CheckPR call of its loop at a time.                 *)
(***************************************************************************)
\* The version tags CheckChangelog is called with.
VersionTags == {<<>>, Version1, <<"v">> \o Version1, Unreleased}

RECURSIVE BeginningsOf(_)
BeginningsOf(calls) ==
  IF calls = {} THEN <<>>
  ELSE LET c == CHOOSE c \in calls : TRUE
       IN (c :> BeginCheckChangelog(c[1], c[2], c[3])) @@ BeginningsOf(calls \ {c})
RECURSIVE BeginningsOfFiles(_)
BeginningsOfFiles(files) ==
  IF files = {} THEN <<>>
  ELSE LET f == CHOOSE f \in files : TRUE
       IN BeginningsOf({f} \X VersionTags \X Limits) @@ BeginningsOfFiles(files \ {f})
\* BeginCheckChangelog for each of the model's calls, computed once.
BeginTable == BeginningsOfFiles(Changelogs)

\* CheckChangelog is called and runs up to its loop.
CallCheckChangelog ==
  /\ pc = "idle"
  /\ \E changelogFile \in Changelogs, versionTag \in VersionTags, limit \in Limits :
       LET b == BeginTable[<<changelogFile, versionTag, limit>>]
       IN /\ call' = [op |-> "CheckChangelog", changelogFile |-> changelogFile,
                      versionTag |-> versionTag, limit |-> limit]
          /\ section' = b.section
          /\ prNumbers' = b.prNumbers
          /\ results' = <<>>
          /\ IF b.err # "nil"
             THEN pc' = "returned" /\ ret' = [results |-> <<>>, err |-> b.err]
             ELSE pc' = "checking" /\ ret' = NoRet
  /\ UNCHANGED <<now, store, rateLimited, resetTime, config, script>>

\* One turn of the loop (checker.go:393-396): CheckPR for the next PR number.
StepCheckPR ==
  /\ pc = "checking"
  /\ Len(results) < Len(prNumbers)
  /\ \E r \in CheckPROutcomes(prNumbers[Len(results) + 1], section) :
       /\ AfterCheckPR(r)
       /\ results' = Append(results, r.result)
       /\ ret' = [trace |-> r.trace]
       /\ pc' = IF r.panic THEN "panicked" ELSE "checking"
  /\ UNCHANGED <<now, config, script, call, section, prNumbers>>

\* The loop is over: CheckChangelog returns the results (checker.go:398).
FinishCheckChangelog ==
  /\ pc = "checking"
  /\ Len(results) = Len(prNumbers)
  /\ pc' = "returned"
  /\ ret' = [results |-> results, err |-> "nil"]
  /\ UNCHANGED <<now, store, rateLimited, resetTime, config, script, call, batch>>

NextBatch == CallCheckChangelog \/ StepCheckPR \/ FinishCheckChangelog \/ Return

SpecBatch == Init /\ [][NextBatch]_vars

(***************************************************************************)
(* The cache store on its own.                                             *)
(***************************************************************************)
DBKeys == {KeyOf(1), KeyOf(2)}
DBTitles == {GitHubTitle(1), GitHubTitle(2)}
DBDescriptions == {FixA, FixC}
DBStatuses == {StatusGoodMatch, StatusPotentialMismatch}

ErrorOf(failed) == IF failed THEN "db error" ELSE "nil"

CallDBStorePRInfo ==
  /\ pc = "idle"
  /\ \E key \in DBKeys, title \in DBTitles, failed \in BOOLEAN :
       /\ prCache' = DBStorePRInfo(prCache, key, title, now, failed)
       /\ call' = [op |-> "StorePRInfo", key |-> key, title |-> title]
       /\ ret' = [err |-> ErrorOf(failed)]
  /\ pc' = "returned"
  /\ UNCHANGED <<now, valCache, rateLimited, resetTime, config, script, batch>>

CallDBGetPRInfo ==
  /\ pc = "idle"
  /\ \E key \in DBKeys, failed \in BOOLEAN :
       /\ call' = [op |-> "GetPRInfo", key |-> key]
       /\ ret' = DBGetPRInfo(prCache, key, now, failed)
  /\ pc' = "returned"
  /\ UNCHANGED <<now, store, rateLimited, resetTime, config, script, batch>>

CallDBStoreValidationResult ==
  /\ pc = "idle"
  /\ \E key \in DBKeys, desc \in DBDescriptions, status \in DBStatuses, failed \in BOOLEAN :
       /\ valCache' = DBStoreValidationResult(valCache, key, desc, status, now, failed)
       /\ call' = [op |-> "StoreValidationResult", key |-> key, changelogDesc |-> desc,
                   status |-> status]
       /\ ret' = [err |-> ErrorOf(failed)]
  /\ pc' = "returned"
  /\ UNCHANGED <<now, prCache, rateLimited, resetTime, config, script, batch>>

CallDBGetValidationResult ==
  /\ pc = "idle"
  /\ \E key \in DBKeys, desc \in DBDescriptions, failed \in BOOLEAN :
       /\ call' = [op |-> "GetValidationResult", key |-> key, changelogDesc |-> desc]
       /\ ret' = DBGetValidationResult(valCache, key, desc, now, failed)
  /\ pc' = "returned"
  /\ UNCHANGED <<now, store, rateLimited, resetTime, config, script, batch>>

InitDB == InitState /\ clientDB = TRUE /\ checkerDB = TRUE /\ hasOracle = FALSE

NextDB ==
  \/ CallDBStorePRInfo \/ CallDBGetPRInfo
  \/ CallDBStoreValidationResult \/ CallDBGetValidationResult
  \/ Return \/ Tick

SpecDB == InitDB /\ [][NextDB]_vars

(***************************************************************************)
(* The sampling policy on its own.                                         *)
(***************************************************************************)
\* The PR lists of n numbers: p[i] = 100 + i, and the same list reversed.
PRLists ==
  {[i \in 1..n |-> 100 + i] : n \in 0..MaxPRs} \cup {[i \in 1..n |-> 101 + n - i] : n \in 0..MaxPRs}

InitLimit ==
  /\ InitState
  /\ clientDB = TRUE /\ checkerDB = TRUE /\ hasOracle = FALSE

\* ExtractPRNumbers has returned numbers; the limit is applied.
CallSelectPRs ==
  /\ pc = "idle"
  /\ \E numbers \in PRLists, limit \in (-1)..(MaxPRs + 1) :
       /\ call' = [op |-> "SelectPRs", prNumbers |-> numbers, limit |-> limit]
       /\ prNumbers' = SelectPRs(numbers, limit)
  /\ pc' = "returned"
  /\ UNCHANGED <<now, store, rateLimited, resetTime, config, script, ret, section, results>>

NextLimit == CallSelectPRs \/ Return

SpecLimit == InitLimit /\ [][NextLimit]_vars

(***************************************************************************)
(* The changelog parser on its own.                                        *)
(***************************************************************************)
\* The sequences of at most n elements of S.
SeqsUpTo(S, n) == UNION {[1..k -> S] : k \in 0..n}

\* The lines of the files GetChangelogSection is called on: three headers, the
\* header of a version without its v, the header of vUnreleased, an entry and a
\* line of text.
FileLines ==
  {HeaderOf(Unreleased), HeaderOf(<<"v">> \o Version1), HeaderOf(<<"v">> \o Version2),
   HeaderOf(Version1), HeaderOf(<<"v">> \o Unreleased),
   Entry(<<"1">>, <<"x">>), <<"t">>}

\* The lines of the sections the PR parser is called on: an entry with one
\* marker; an entry with two; a marker with a leading zero on a line that is no
\* entry; an entry with two broken markers; a marker of two digits.
OneMarker == <<"*", " ">> \o PRRef(1)
TwoMarkers == <<"*", " ">> \o PRRef(2) \o <<" ">> \o PRRef(1)
ZeroMarker == <<"[", "\\", "#", "0", "1", "]", "x">>
BrokenMarkers == <<"*", " ", "[", "#", "3", "]", " ", "[", "\\", "#", "]">>
LongMarker == PRRef(12)
SectionLines == {OneMarker, TwoMarkers, ZeroMarker, BrokenMarkers, LongMarker}

\* The PR numbers a line is looked up for.
ParsePRNumbers == {1, 2, 3, 12}

InitParse ==
  /\ InitState
  /\ clientDB = TRUE /\ checkerDB = TRUE /\ hasOracle = FALSE

\* A call of Checker.GetChangelogSection on a file that opens.
CallGetChangelogSection ==
  /\ pc = "idle"
  /\ \E lines \in SeqsUpTo(FileLines, MaxLines), versionTag \in VersionTags :
       /\ call' = [op |-> "GetChangelogSection", changelogFile |-> File(lines),
                   versionTag |-> versionTag]
       /\ ret' = GetChangelogSection(lines, versionTag)
  /\ pc' = "returned"
  /\ UNCHANGED <<now, store, rateLimited, resetTime, config, script, batch>>

\* A call of Checker.ExtractPRNumbers on the section with these lines.
CallExtractPRNumbers ==
  /\ pc = "idle"
  /\ \E lines \in SeqsUpTo(SectionLines, MaxLines) :
       /\ call' = [op |-> "ExtractPRNumbers", lines |-> lines,
                   changelogSection |-> JoinLines(lines)]
       /\ ret' = [prNumbers |-> ExtractPRNumbers(JoinLines(lines))]
  /\ pc' = "returned"
  /\ UNCHANGED <<now, store, rateLimited, resetTime, config, script, batch>>

\* A call of Checker.FindPRLineInSection on the section with these lines.
CallFindPRLineInSection ==
  /\ pc = "idle"
  /\ \E lines \in SeqsUpTo(SectionLines, MaxLines), prNumber \in ParsePRNumbers :
       /\ call' = [op |-> "FindPRLineInSection", prNumber |-> prNumber, lines |-> lines,
                   changelogSection |-> JoinLines(lines)]
       /\ ret' = [line |-> FindPRLineInSection(prNumber, JoinLines(lines))]
  /\ pc' = "returned"
  /\ UNCHANGED <<now, store, rateLimited, resetTime, config, script, batch>>

\* The lines a description is extracted from: an entry with a component and one
\* without, an entry whose marker has no link, a line that is no entry, an entry
\* with the links of two PRs, an entry with nothing after its link, an entry
\* whose marker has a leading zero.
LinkOf(digits) == <<"[", "\\", "#">> \o digits \o <<"]", "(", "u", ")">>
TwoLinks == Entry(<<"1">>, <<"a", " ">> \o LinkOf(<<"2">>) \o <<" ", "b">>)
DescLines ==
  {EntryWithComponent(<<"1">>, <<"x">>), Entry(<<"1">>, <<"x">>),
   EntryWithoutLink(<<"1">>, <<"x">>), <<"s", " ">> \o LinkOf(<<"1">>) \o <<" ", "x">>,
   TwoLinks, Entry(<<"1">>, <<>>), Entry(<<"0", "1">>, <<"x">>)}

\* A call of Checker.GetPRDescriptionFromLine.
CallGetPRDescriptionFromLine ==
  /\ pc = "idle"
  /\ \E line \in DescLines, prNumber \in ParsePRNumbers :
       /\ call' = [op |-> "GetPRDescriptionFromLine", line |-> line, prNumber |-> prNumber]
       /\ ret' = [desc |-> GetPRDescriptionFromLine(line, prNumber)]
  /\ pc' = "returned"
  /\ UNCHANGED <<now, store, rateLimited, resetTime, config, script, batch>>

NextParse ==
  \/ CallGetChangelogSection \/ CallExtractPRNumbers \/ CallFindPRLineInSection
  \/ CallGetPRDescriptionFromLine
  \/ Return

SpecParse == InitParse /\ [][NextParse]_vars

(***************************************************************************)
(* The similarity pipeline on its own.                                     *)
(***************************************************************************)
\* The characters of the descriptions and titles: a lower-case letter, an
\* upper-case letter, the period and the backtick.
SimChars == {"a", "B", ".", Backtick}

\* A description and two titles of some length: "Fix bug", "Fix bug in client",
\* "Add new feature".
FixBug == <<"F", "i", "x", " ", "b", "u", "g">>
FixBugInClient == FixBug \o <<" ", "i", "n", " ", "c", "l", "i", "e", "n", "t">>
AddNewFeature == <<"A", "d", "d", " ", "n", "e", "w", " ", "f", "e", "a", "t", "u", "r", "e">>

Texts == SeqsUpTo(SimChars, MaxText) \cup {FixBug, FixBugInClient, AddNewFeature}

InitSim ==
  /\ InitState
  /\ clientDB = TRUE /\ checkerDB = TRUE
  /\ hasOracle \in BOOLEAN

\* A call of Checker.CheckSimilarity; the oracle answers if it is asked.
CallCheckSimilarity ==
  /\ pc = "idle"
  /\ \E changelogDesc \in Texts, prTitle \in Texts :
       \E answer \in IF OracleCalled(changelogDesc, prTitle, hasOracle)
                     THEN OracleAnswers ELSE {"none"} :
         /\ call' = [op |-> "CheckSimilarity", changelogDesc |-> changelogDesc,
                     prTitle |-> prTitle, answer |-> answer]
         /\ ret' = [status |-> CheckSimilarity(changelogDesc, prTitle, hasOracle, answer)]
  /\ pc' = "returned"
  /\ UNCHANGED <<now, store, rateLimited, resetTime, config, script, batch>>

NextSim == CallCheckSimilarity \/ Return

SpecSim == InitSim /\ [][NextSim]_vars

(***************************************************************************)
(* close-reopened-issues: one run of the script.                           *)
(***************************************************************************)
\* String.prototype.trim, the blank being the white space.
RECURSIVE TrimStart(_)
TrimStart(s) == IF s # <<>> /\ Head(s) = " " THEN TrimStart(Tail(s)) ELSE s

RECURSIVE TrimEnd(_)
TrimEnd(s) ==
  IF s # <<>> /\ s[Len(s)] = " " THEN TrimEnd(SubSeq(s, 1, Len(s) - 1)) ELSE s

Trim(s) == TrimEnd(TrimStart(s))

\* What askForConfirmation resolves to for the line typed (README.md:229-235).
AskForConfirmation(typed) == ToLower(Trim(typed))

\* The lines the user types at a prompt.
TypedLines == {<<>>, <<" ">>, <<"y">>, <<"Y", " ">>, <<"n">>, <<" ", "N">>, <<"a">>, <<"A">>,
               <<"o">>, <<"x">>, <<"y", "e", "s">>}

\* validAnswers (README.md:280)
ValidAnswers == {<<"y">>, <<"n">>, <<"a">>, <<>>}

\* What findReopenedIssues returns: the reopened issues, each once, in the order
\* of their reopening.
FoundIssues ==
  {l \in SeqsUpTo(IssueNumbers, MaxReopened) :
     \A i, j \in 1..Len(l) : l[i] = l[j] => i = j}

\* The issue the loop of closeReopenedIssues is at.
Issue == reopenedIssues[item]

\* Where the loop goes once the issue is approved: to createComment if a comment
\* is configured, else to update (README.md:303-317).
Approved == IF closeComment THEN "comment" ELSE "update"

\* The loop of closeReopenedIssues goes to its next issue, or ends
\* (README.md:252-265, 331-334).  all: the value of closeAllWithoutPrompt.
NextIssue(all) ==
  IF item < Len(reopenedIssues)
  THEN /\ item' = item + 1
       /\ at' = IF all THEN Approved ELSE "prompt"
       /\ prompts' = IF all THEN prompts
                     ELSE [prompts EXCEPT ![reopenedIssues[item + 1]] = @ + 1]
  ELSE /\ at' = "done"
       /\ UNCHANGED <<item, prompts>>

\* main without the test of CONFIG.dryRun.
Main_IgnoresDryRun ==
  /\ at = "main"
  /\ \/ /\ at' = "exited"
        /\ UNCHANGED <<reopenedIssues, item, prompts, listed>>
     \/ \E found \in FoundIssues :
          /\ reopenedIssues' = found
          /\ listed' = FALSE
          /\ IF found = <<>>
             THEN at' = "done" /\ UNCHANGED <<item, prompts>>
             ELSE /\ item' = 1
                  /\ at' = "prompt"
                  /\ prompts' = [prompts EXCEPT ![found[1]] = @ + 1]
  /\ UNCHANGED <<dryRun, closeComment, closeAllWithoutPrompt, lastAnswer, accepted, opened,
                 commentCalls, updateCalls, closed>>
  /\ UNCHANGED checker

\* main up to the first prompt (README.md:338-355, 238-265): the client cannot be
\* made or findReopenedIssues exits or throws, and the script exits; or it
\* returns the reopened issues, which a dry run lists.
Main ==
  /\ at = "main"
  /\ \/ /\ at' = "exited"
        /\ UNCHANGED <<reopenedIssues, item, prompts, listed>>
     \/ \E found \in FoundIssues :
          /\ reopenedIssues' = found
          /\ IF dryRun
             THEN /\ listed' = TRUE
                  /\ at' = "done"
                  /\ UNCHANGED <<item, prompts>>
             ELSE /\ listed' = FALSE
                  /\ IF found = <<>>
                     THEN at' = "done" /\ UNCHANGED <<item, prompts>>
                     ELSE /\ item' = 1
                          /\ at' = "prompt"
                          /\ prompts' = [prompts EXCEPT ![found[1]] = @ + 1]
  /\ UNCHANGED <<dryRun, closeComment, closeAllWithoutPrompt, lastAnswer, accepted, opened,
                 commentCalls, updateCalls, closed>>
  /\ UNCHANGED checker

\* The loop that takes an answer it does not know for a yes.
Decide_InvalidIsYes(a) ==
  /\ lastAnswer' = a
  /\ accepted' = [accepted EXCEPT ![Issue] = IF a \in ValidAnswers THEN a ELSE @]
  /\ IF a = <<"n">>
     THEN /\ NextIssue(closeAllWithoutPrompt)
          /\ UNCHANGED closeAllWithoutPrompt
     ELSE /\ closeAllWithoutPrompt' = IF a = <<"a">> THEN TRUE ELSE closeAllWithoutPrompt
          /\ at' = Approved
          /\ UNCHANGED <<item, prompts>>

\* The loop acts on the answer a, which is not "o" (README.md:280-301).
Decide(a) ==
  /\ lastAnswer' = a
  /\ IF a \notin ValidAnswers
     THEN /\ prompts[Issue] < MaxPrompts
          /\ at' = "retry"
          /\ prompts' = [prompts EXCEPT ![Issue] = @ + 1]
          /\ UNCHANGED <<item, closeAllWithoutPrompt, accepted>>
     ELSE /\ accepted' = [accepted EXCEPT ![Issue] = a]
          /\ IF a = <<"n">>
             THEN /\ NextIssue(closeAllWithoutPrompt)
                  /\ UNCHANGED closeAllWithoutPrompt
             ELSE /\ closeAllWithoutPrompt' = IF a = <<"a">> THEN TRUE ELSE closeAllWithoutPrompt
                  /\ at' = Approved
                  /\ UNCHANGED <<item, prompts>>

\* The user answers the first prompt for an issue (README.md:265-277): "o" opens
\* the issue in the browser and asks again; open may throw, which ends the run.
AnswerPrompt ==
  /\ at = "prompt"
  /\ \E typed \in TypedLines :
       LET a == AskForConfirmation(typed)
       IN IF a = <<"o">>
          THEN /\ prompts[Issue] < MaxPrompts
               /\ lastAnswer' = a
               /\ opened' = opened \cup {Issue}
               /\ \/ /\ at' = "prompt again"
                     /\ prompts' = [prompts EXCEPT ![Issue] = @ + 1]
                  \/ /\ at' = "exited"
                     /\ UNCHANGED prompts
               /\ UNCHANGED <<item, closeAllWithoutPrompt, accepted>>
          ELSE Decide(a) /\ UNCHANGED opened
  /\ UNCHANGED <<dryRun, closeComment, reopenedIssues, commentCalls, updateCalls, closed,
                 listed>>
  /\ UNCHANGED checker

\* The user answers the prompt that follows the opening (README.md:273-276).
AnswerPromptAgain ==
  /\ at = "prompt again"
  /\ \E typed \in TypedLines : Decide(AskForConfirmation(typed))
  /\ UNCHANGED <<dryRun, closeComment, reopenedIssues, opened, commentCalls, updateCalls,
                 closed, listed>>
  /\ UNCHANGED checker

\* The user answers the prompt that follows an invalid answer (README.md:282-288).
AnswerRetry ==
  /\ at = "retry"
  /\ \E typed \in TypedLines : Decide(AskForConfirmation(typed))
  /\ UNCHANGED <<dryRun, closeComment, reopenedIssues, opened, commentCalls, updateCalls,
                 closed, listed>>
  /\ UNCHANGED checker

\* issues.createComment for the issue (README.md:305-314); if it throws, the
\* issue is left open (README.md:326-328).
CreateComment ==
  /\ at = "comment"
  /\ commentCalls' = commentCalls \cup {Issue}
  /\ \/ at' = "update" /\ UNCHANGED <<item, prompts>>
     \/ NextIssue(closeAllWithoutPrompt)
  /\ UNCHANGED <<dryRun, closeComment, reopenedIssues, closeAllWithoutPrompt, lastAnswer,
                 accepted, opened, updateCalls, closed, listed>>
  /\ UNCHANGED checker

\* issues.update closes the issue, or throws (README.md:317-328).
UpdateIssue ==
  /\ at = "update"
  /\ updateCalls' = updateCalls \cup {Issue}
  /\ \/ closed' = closed \cup {Issue}
     \/ closed' = closed
  /\ NextIssue(closeAllWithoutPrompt)
  /\ UNCHANGED <<dryRun, closeComment, reopenedIssues, closeAllWithoutPrompt, lastAnswer,
                 accepted, opened, commentCalls, listed>>
  /\ UNCHANGED checker

InitClose ==
  /\ InitChecker
  /\ clientDB = TRUE /\ checkerDB = TRUE /\ hasOracle = FALSE
  /\ \E dry \in BOOLEAN, comment \in BOOLEAN : InitScript(dry, comment)

NextClose ==
  \/ Main
  \/ AnswerPrompt \/ AnswerPromptAgain \/ AnswerRetry
  \/ CreateComment \/ UpdateIssue

SpecClose == InitClose /\ [][NextClose]_vars

(***************************************************************************)
(* Two CheckPR calls for one PR whose steps interleave.  Each statement of  *)
(* the store is one step (one SQL statement, db.go:109-112, 137-140), and   *)
(* so is each call of Client.GetPRInfo and of CheckSimilarity; nothing in   *)
(* CheckPR holds the row between its probe and its write.                   *)
(***************************************************************************)
Pipelines == {1, 2}

\* The local variables of one CheckPR call: the section it was given, the
\* description it extracted (result.ChangelogDesc), where it is, the order of
\* its probe and its write among the steps on the store, what its probe
\* returned, the title it got, the status it computed (result.Status).
Frame(sec, desc) ==
  [section |-> sec, desc |-> desc, at |-> "probe", probedAt |-> 0, storedAt |-> 0,
   hit |-> FALSE, title |-> <<>>, status |-> StatusGoodMatch, error |-> "nil"]

\* The steps on the verdict table that the two calls have taken.
StoreSteps(runs) ==
  Cardinality({p \in Pipelines : runs[p].probedAt > 0})
    + Cardinality({p \in Pipelines : runs[p].storedAt > 0})

\* The position of the program after a step that leaves the calls as runs.
AfterStep(runs) ==
  /\ call' = [call EXCEPT !.runs = runs]
  /\ pc' = IF \A p \in Pipelines : runs[p].at = "done" THEN "returned" ELSE "racing"

InitRace ==
  /\ InitState
  /\ clientDB = TRUE /\ checkerDB = TRUE
  /\ hasOracle \in BOOLEAN

\* Two calls of CheckPR for the same PR start, each with a section in which the
\* PR has a description (checker.go:286-300), the two descriptions different.
CallCheckPRTwice ==
  /\ pc = "idle"
  /\ \E prNumber \in PRNumbers, s1 \in Sections, s2 \in Sections :
       /\ DescriptionInSection(prNumber, s1) # <<>>
       /\ DescriptionInSection(prNumber, s2) # <<>>
       /\ DescriptionInSection(prNumber, s1) # DescriptionInSection(prNumber, s2)
       /\ call' = [op |-> "CheckPR twice", prNumber |-> prNumber,
                   runs |-> <<Frame(s1, DescriptionInSection(prNumber, s1)),
                              Frame(s2, DescriptionInSection(prNumber, s2))>>]
  /\ pc' = "racing"
  /\ UNCHANGED <<now, store, rateLimited, resetTime, config, script, ret, batch>>

\* checker.go:303-308: one call probes the verdict table.
StepGetValidationResult ==
  /\ pc = "racing"
  /\ \E p \in Pipelines, failed \in BOOLEAN :
       LET f == call.runs[p]
           probe == DBGetValidationResult(valCache, KeyOf(call.prNumber), f.desc, now, failed)
       IN /\ f.at = "probe"
          /\ AfterStep([call.runs EXCEPT
                          ![p] = [f EXCEPT !.at = "lookup",
                                           !.probedAt = StoreSteps(call.runs) + 1,
                                           !.hit = probe.err = "nil" /\ probe.found,
                                           !.status = IF probe.err = "nil" /\ probe.found
                                                      THEN probe.status ELSE f.status]])
  /\ UNCHANGED <<now, store, rateLimited, resetTime, config, script, ret, batch>>

\* checker.go:317-334: one call looks the title up, and returns if it has a
\* cached verdict or the lookup failed.
StepGetPRInfo ==
  /\ pc = "racing"
  /\ \E p \in Pipelines, readFailed \in BOOLEAN, writeFailed \in BOOLEAN :
       LET f == call.runs[p]
           key == KeyOf(call.prNumber)
       IN /\ f.at = "lookup"
          /\ \E resp \in IF SendsRequest(Client, prCache, key, now, readFailed)
                         THEN ResponsesFor(call.prNumber) ELSE {NoResponse} :
               LET got == ClientGetPRInfo(Client, prCache, key, now, resp, readFailed, writeFailed)
               IN /\ prCache' = got.cache
                  /\ rateLimited' = got.rateLimited
                  /\ resetTime' = got.resetTime
                  /\ AfterStep([call.runs EXCEPT
                                  ![p] = [f EXCEPT
                                            !.at = IF f.hit \/ got.err # "nil" THEN "done"
                                                   ELSE "compare",
                                            !.title = got.title,
                                            !.error = got.err,
                                            !.status = IF ~f.hit /\ got.err # "nil"
                                                       THEN StatusNotFound ELSE f.status]])
  /\ UNCHANGED <<now, valCache, config, script, ret, batch>>

\* checker.go:339: one call compares its description with the title it got.
StepCheckSimilarity ==
  /\ pc = "racing"
  /\ \E p \in Pipelines :
       LET f == call.runs[p]
       IN /\ f.at = "compare"
          /\ \E answer \in IF OracleCalled(f.desc, f.title, hasOracle)
                           THEN OracleAnswers ELSE {"none"} :
               AfterStep([call.runs EXCEPT
                            ![p] = [f EXCEPT
                                      !.at = "store",
                                      !.status = CheckSimilarity(f.desc, f.title, hasOracle,
                                                                 answer)]])
  /\ UNCHANGED <<now, store, rateLimited, resetTime, config, script, ret, batch>>

\* checker.go:342-350: one call writes its verdict row and returns.
StepStoreValidationResult ==
  /\ pc = "racing"
  /\ \E p \in Pipelines, failed \in BOOLEAN :
       LET f == call.runs[p]
       IN /\ f.at = "store"
          /\ valCache' = DBStoreValidationResult(valCache, KeyOf(call.prNumber), f.desc,
                                                 f.status, now, failed)
          /\ AfterStep([call.runs EXCEPT
                          ![p] = [f EXCEPT !.at = "done",
                                           !.storedAt = IF failed THEN 0
                                                        ELSE StoreSteps(call.runs) + 1]])
  /\ UNCHANGED <<now, prCache, rateLimited, resetTime, config, script, ret, batch>>

NextRace ==
  \/ CallCheckPRTwice
  \/ StepGetValidationResult \/ StepGetPRInfo \/ StepCheckSimilarity
  \/ StepStoreValidationResult
  \/ Return \/ Tick

SpecRace == InitRace /\ [][NextRace]_vars

(***************************************************************************)
(* Properties of the cache store (SpecDB).                                 *)
(***************************************************************************)
\* The call of op has returned.
Returned(op) == pc = "returned" /\ call.op = op

\* The age, at the instant t, of a row written at the instant written.
Age(t, written) == t - written

\* C1: a verdict row stored for a key with description D1 is a miss for a lookup
\* of that key with any other description D2, whatever the row's age, even when
\* it was written at the current instant.
C1_ContentInvalidation ==
  (/\ Returned("GetValidationResult")
   /\ valCache[call.key] # NoRow
   /\ valCache[call.key].changelogDesc # call.changelogDesc)
    => ~ret.found

\* A lookup with another description than that of the row written at this very
\* instant has returned, without an error.
C1_Witness ==
  /\ Returned("GetValidationResult")
  /\ ret.err = "nil"
  /\ valCache[call.key] # NoRow
  /\ valCache[call.key].changelogDesc # call.changelogDesc
  /\ valCache[call.key].lastValidated = now
  /\ ~ret.found

\* C2: a read that returns no error of a title row, or of a verdict row with the
\* description asked for, is a hit exactly when the row's age is at most 7 days.
C2_FreshnessBoundary ==
  /\ (/\ Returned("GetPRInfo")
      /\ ret.err = "nil"
      /\ prCache[call.key] # NoRow)
       => (ret.found <=> Age(now, prCache[call.key].fetchedAt) <= 7)
  /\ (/\ Returned("GetValidationResult")
      /\ ret.err = "nil"
      /\ valCache[call.key] # NoRow
      /\ valCache[call.key].changelogDesc = call.changelogDesc)
       => (ret.found <=> Age(now, valCache[call.key].lastValidated) <= 7)

\* A verdict row 8 days old has been read with its own description: a miss.
C2_Witness ==
  /\ Returned("GetValidationResult")
  /\ ret.err = "nil"
  /\ valCache[call.key] # NoRow
  /\ valCache[call.key].changelogDesc = call.changelogDesc
  /\ Age(now, valCache[call.key].lastValidated) = 8
  /\ ~ret.found

(***************************************************************************)
(* Properties of CheckPR and Client.GetPRInfo (Spec).                      *)
(***************************************************************************)
\* A step in which a CheckPR call that got as far as its title lookup returns.
CheckPRLooksUp ==
  /\ pc = "idle"
  /\ pc' = "returned"
  /\ call'.op = "CheckPR"
  /\ ret'.trace.lookup

\* The verdict table holds, for the PR and the description of the call that
\* returns in this step, a row at most 7 days old, and the checker has a store.
ValidVerdictCached ==
  /\ checkerDB
  /\ valCache[KeyOf(call'.prNumber)] # NoRow
  /\ valCache[KeyOf(call'.prNumber)].changelogDesc = ret'.result.ChangelogDesc
  /\ Age(now, valCache[KeyOf(call'.prNumber)].lastValidated) <= 7

\* C3: with no store at all (both db fields nil) no operation of CheckPR or of
\* Client.GetPRInfo faults: a PR check completes with a PRResult.
C3_AbsentStoreTolerated == (~clientDB /\ ~checkerDB) => pc # "panicked"

\* C5: on a valid cached verdict (read without error) the result carries the
\* cached status and the title lookup is still made; if the lookup fails the
\* result keeps the cached status, has an empty title and carries the lookup's
\* error.
C5_HitPath ==
  [][(CheckPRLooksUp /\ ValidVerdictCached /\ ~ret'.trace.probeFailed)
      => /\ ret'.trace.hit
         /\ ret'.result.Status = valCache[KeyOf(call'.prNumber)].status
         /\ ret'.result.Error = ret'.trace.err
         /\ ret'.trace.err # "nil" => ret'.result.PRTitle = <<>>]_vars

\* A CheckPR call has returned the cached status PotentialMismatch with the
\* error of its failed title lookup and no title.
C5_Witness ==
  /\ Returned("CheckPR")
  /\ ret.trace.hit
  /\ ret.trace.lookup
  /\ ret.trace.err # "nil"
  /\ ret.result.Status = StatusPotentialMismatch
  /\ ret.result.PRTitle = <<>>
  /\ ret.result.Error = ret.trace.err

\* C6: when no valid cached verdict is used and the title lookup fails, the
\* result is NotFound with the lookup's error, the similarity check does not
\* run and no verdict row is written.
C6_MissLookupFails ==
  [][(/\ CheckPRLooksUp
      /\ ~ValidVerdictCached \/ ret'.trace.probeFailed
      /\ ret'.trace.err # "nil")
      => /\ ret'.result.Status = StatusNotFound
         /\ ret'.result.Error = ret'.trace.err
         /\ ~ret'.trace.compared
         /\ ~ret'.trace.oracle
         /\ ~ret'.trace.stored
         /\ valCache' = valCache]_vars

\* A CheckPR call of a checker with a store has returned NotFound with the error
\* of its failed lookup, having found no cached verdict, and the key has no
\* verdict row.
C6_Witness ==
  /\ Returned("CheckPR")
  /\ checkerDB
  /\ ret.trace.probed
  /\ ~ret.trace.hit
  /\ ret.trace.lookup
  /\ ret.trace.err # "nil"
  /\ ret.result.Status = StatusNotFound
  /\ valCache[KeyOf(call.prNumber)] = NoRow

\* C7: while the client is rate limited and the reset time has not come, every
\* title lookup fails with the rate-limited error and sends no request, even if
\* the title is freshly cached; at or after the reset time the lookup is not
\* rejected: it returns the cached title or sends its request.
C7_RateLimitFailFast ==
  [][CheckPRLooksUp
      => IF rateLimited /\ now < resetTime
         THEN /\ ret'.trace.err = "rate limited until"
              /\ ~ret'.trace.sent
              /\ ret'.result.Error = "rate limited until"
              /\ ret'.result.PRTitle = <<>>
         ELSE ret'.trace.sent \/ ret'.trace.err = "nil"]_vars

\* A lookup has been rejected without a request although the title row of its
\* key is fresh.
C7_Witness ==
  /\ Returned("CheckPR")
  /\ ret.trace.lookup
  /\ ret.trace.err = "rate limited until"
  /\ ~ret.trace.sent
  /\ rateLimited /\ now < resetTime
  /\ prCache[KeyOf(call.prNumber)] # NoRow
  /\ Age(now, prCache[KeyOf(call.prNumber)].fetchedAt) <= 7

\* C8, as stated: every title lookup that returns a title without an error
\* leaves the title row written with that title and the current timestamp.
C8_EveryLookupWritesTitleRow ==
  (Returned("CheckPR") /\ ret.trace.lookup /\ ret.trace.err = "nil")
    => prCache[KeyOf(call.prNumber)] = [title |-> ret.result.PRTitle, fetchedAt |-> now]

\* C8, amended: a title lookup that returns a title without an error after
\* fetching it from the provider leaves the title row written with that title
\* and the current timestamp unless the write fails, and then leaves the table
\* as it was; a lookup served from the cache returns the title of a row at most
\* 7 days old and leaves the table, and so the row's older timestamp, as it was.
C8_FetchWritesTitleRow ==
  [][(CheckPRLooksUp /\ ret'.trace.err = "nil")
      => IF ret'.trace.sent
         THEN IF ret'.trace.writeFailed
              THEN prCache' = prCache
              ELSE prCache' = [prCache EXCEPT ![KeyOf(call'.prNumber)] =
                                 [title |-> ret'.result.PRTitle, fetchedAt |-> now]]
         ELSE /\ prCache' = prCache
              /\ prCache[KeyOf(call'.prNumber)] # NoRow
              /\ prCache[KeyOf(call'.prNumber)].title = ret'.result.PRTitle
              /\ Age(now, prCache[KeyOf(call'.prNumber)].fetchedAt) <= 7]_vars

\* A lookup that fetched the title has written the title row, after the
\* first instant.
C8_Witness ==
  /\ Returned("CheckPR")
  /\ ret.trace.lookup
  /\ ret.trace.err = "nil"
  /\ ret.trace.sent
  /\ ~ret.trace.writeFailed
  /\ now > 0
  /\ prCache[KeyOf(call.prNumber)] = [title |-> ret.result.PRTitle, fetchedAt |-> now]

(***************************************************************************)
(* Properties of CheckChangelog (SpecBatch, SpecLimit).                    *)
(***************************************************************************)
\* One result for each of the PR numbers, in their order.
OnePerPR(numbers, rs) ==
  /\ Len(rs) = Len(numbers)
  /\ \A i \in 1..Len(numbers) : rs[i].Number = numbers[i]

\* C4: once CheckChangelog has resolved a section with at least one PR number,
\* no failure of a PR's check aborts it: it returns, with no error, one PRResult
\* for each selected PR number, in order.
C4_BatchIsolation ==
  (call.op = "CheckChangelog" /\ Len(prNumbers) >= 1)
    => /\ pc # "panicked"
       /\ pc = "returned" => (ret.err = "nil" /\ OnePerPR(prNumbers, ret.results))

\* With a store in the client, CheckChangelog does as C4 says.
BatchIsolationWithStore == clientDB => C4_BatchIsolation

\* The text holds no `[\#<digits>]` marker.
NoPRRef(text) == \A i \in 1..Len(text) : PRRefEnd(text, i) = 0

\* C9: with n PR numbers p and limit L, all of p is selected when L <= 0 or
\* L >= n; p[0], p[floor(n/2)], p[n-1] when L = 3 < n; the first L otherwise.
C9_SamplingPolicy ==
  Returned("SelectPRs")
    => LET p == call.prNumbers
           n == Len(call.prNumbers)
           L == call.limit
       IN IF L <= 0 \/ L >= n THEN prNumbers = p
          ELSE IF L = 3 THEN prNumbers = <<p[1], p[(n \div 2) + 1], p[n]>>
          ELSE Len(prNumbers) = L /\ \A i \in 1..L : prNumbers[i] = p[i]

\* Of 10 PR numbers, limit 3 has selected p[0], p[5] and p[9].
C9_Witness ==
  /\ Returned("SelectPRs")
  /\ Len(call.prNumbers) = 10
  /\ call.limit = 3
  /\ prNumbers = <<call.prNumbers[1], call.prNumbers[6], call.prNumbers[10]>>

\* C10: CheckChangelog on a file whose section resolves but holds no PR marker
\* returns at once the error "no PR numbers found in the changelog section" and
\* no results, with no lookup, no oracle call and no write to the store.
C10_NoPRNumbers ==
  [][(/\ pc = "idle"
      /\ call'.op = "CheckChangelog"
      /\ ~call'.changelogFile.missing
      /\ GetChangelogSection(call'.changelogFile.lines, call'.versionTag).err = "nil"
      /\ NoPRRef(GetChangelogSection(call'.changelogFile.lines, call'.versionTag).section))
      => /\ pc' = "returned"
         /\ ret' = [results |-> <<>>, err |-> "no PR numbers found in the changelog section"]
         /\ results' = <<>>
         /\ UNCHANGED <<store, rateLimited, resetTime>>]_vars

\* CheckChangelog has returned that error for a file with an Unreleased section
\* of one line without a marker.
C10_Witness ==
  /\ Returned("CheckChangelog")
  /\ call.changelogFile = File(ChangelogNoPR)
  /\ ret.err = "no PR numbers found in the changelog section"
  /\ ret.results = <<>>
  /\ prCache = [k \in Keys |-> NoRow]

\* No line of the file begins with the header of the label the section is looked
\* up for.
NoHeaderLine(lines, versionTag) ==
  \A i \in 1..Len(lines) : ~HasPrefix(lines[i], VersionHeader(EffectiveTag(lines, versionTag)))

\* C11: when no line of the changelog begins with the header of the effective
\* label, as in an empty file with any label, the section lookup fails with "no
\* section found" and CheckChangelog returns that error at once, with no results
\* and nothing looked up or written.
C11_SectionNotFound ==
  [][(/\ pc = "idle"
      /\ call'.op = "CheckChangelog"
      /\ ~call'.changelogFile.missing
      /\ NoHeaderLine(call'.changelogFile.lines, call'.versionTag))
      => /\ GetChangelogSection(call'.changelogFile.lines, call'.versionTag).err
              = "no section found"
         /\ pc' = "returned"
         /\ ret' = [results |-> <<>>, err |-> "no section found"]
         /\ UNCHANGED <<store, rateLimited, resetTime>>]_vars

\* CheckChangelog has returned "no section found" for the empty file and a label
\* that is not empty.
C11_Witness ==
  /\ Returned("CheckChangelog")
  /\ call.changelogFile = File(ChangelogEmpty)
  /\ call.versionTag = Version1
  /\ ret.err = "no section found"
  /\ ret.results = <<>>

(***************************************************************************)
(* Properties of the parser (SpecParse).                                   *)
(***************************************************************************)
\* The first line that begins with the header of the effective label is the last
\* line of the file or is followed at once by the header of another section.
HeaderThenNothing(lines, versionTag) ==
  LET header == VersionHeader(EffectiveTag(lines, versionTag))
  IN \E i \in 1..Len(lines) :
       /\ HasPrefix(lines[i], header)
       /\ \A j \in 1..(i - 1) : ~HasPrefix(lines[j], header)
       /\ \/ i = Len(lines)
          \/ /\ HasPrefix(lines[i + 1], <<"#", "#", " ", "[">>)
             /\ ~HasPrefix(lines[i + 1], header)

\* C12: the section lookup fails with "no section found" when the header is
\* there but nothing follows it in its section: the header is the last line of
\* the file or the next line is the header of another section.
C12_EmptySectionNotFound ==
  (/\ Returned("GetChangelogSection")
   /\ HeaderThenNothing(call.changelogFile.lines, call.versionTag))
    => ret.err = "no section found"

\* The lines of the files that are headers of the form `## [vX.Y.Z]`.
VersionHeaders == {HeaderOf(<<"v">> \o Version1), HeaderOf(<<"v">> \o Version2)}

\* The first place of the lines that satisfies has(_), 0 if none does.
FirstPlace(lines, has(_)) ==
  IF \E i \in 1..Len(lines) : has(lines[i])
  THEN CHOOSE i \in 1..Len(lines) : has(lines[i]) /\ \A j \in 1..(i - 1) : ~has(lines[j])
  ELSE 0

\* C23: called with an empty label, the lookup returns the Unreleased section
\* if any line begins with `## [Unreleased]`, also when the header of a version
\* stands above it; else the section of the version of the first line of the
\* form `## [vX.Y.Z]`; else it fails with "no section found".
C23_EffectiveLabel ==
  (Returned("GetChangelogSection") /\ call.versionTag = <<>>)
    => LET lines == call.changelogFile.lines
           u == FirstPlace(lines, LAMBDA l : HasPrefix(l, HeaderOf(Unreleased)))
           v == FirstPlace(lines, LAMBDA l : l \in VersionHeaders)
       IN IF u # 0
          THEN /\ ret.err = "nil"
               /\ HasPrefix(ret.section, HeaderOf(Unreleased))
               /\ ret = GetChangelogSection(lines, Unreleased)
          ELSE IF v # 0
          THEN /\ ret.err = "nil"
               /\ HasPrefix(ret.section, lines[v])
               /\ ret = GetChangelogSection(lines, SubSeq(lines[v], 5, Len(lines[v]) - 1))
          ELSE ret.err = "no section found"

\* The Unreleased section was returned for the empty label from a file whose
\* first line is the header of a version.
C23_Witness ==
  /\ Returned("GetChangelogSection")
  /\ call.versionTag = <<>>
  /\ call.changelogFile.lines = <<HeaderOf(<<"v">> \o Version2), HeaderOf(Unreleased), <<"t">>>>
  /\ ret = [section |-> HeaderOf(Unreleased) \o <<"\n", "t">>, err |-> "nil"]

\* The lines from the first that begins with header up to, and without, the next
\* that begins with `## [`.
SectionBetween(lines, header) ==
  LET i == FirstPlace(lines, LAMBDA l : HasPrefix(l, header))
      next == {j \in (i + 1)..Len(lines) : HasPrefix(lines[j], <<"#", "#", " ", "[">>)}
      end == IF next = {} THEN Len(lines) ELSE (CHOOSE j \in next : \A k \in next : j <= k) - 1
  IN SubSeq(lines, i, end)

\* C24: the section returned starts at the first line that begins with the
\* header of the label and holds every line up to, and without, the next line
\* that begins with `## [`, whatever its label, or up to the end of the file.
C24_SectionBoundaries ==
  (Returned("GetChangelogSection") /\ ret.err = "nil")
    => ret.section =
         JoinLines(SectionBetween(call.changelogFile.lines,
                                  VersionHeader(EffectiveTag(call.changelogFile.lines,
                                                             call.versionTag))))

\* In the files in which the header of the label stands once the section ends
\* before the next header.
BoundariesOfSingleHeader ==
  (/\ Returned("GetChangelogSection") /\ ret.err = "nil"
   /\ LET header == VersionHeader(EffectiveTag(call.changelogFile.lines, call.versionTag))
      IN Cardinality({i \in 1..Len(call.changelogFile.lines) :
                        HasPrefix(call.changelogFile.lines[i], header)}) = 1)
    => ret.section =
         JoinLines(SectionBetween(call.changelogFile.lines,
                                  VersionHeader(EffectiveTag(call.changelogFile.lines,
                                                             call.versionTag))))

\* C25: for a version X.Y.Z the lookup with the label X.Y.Z and the lookup with
\* the label vX.Y.Z return the same, the section of the header `## [vX.Y.Z]`
\* or the failure; the label Unreleased is looked up as `## [Unreleased]`, and
\* a file whose only header is `## [vUnreleased]` has no section for it.
C25_LabelNormalization ==
  Returned("GetChangelogSection")
    => LET lines == call.changelogFile.lines
           found(header) ==
             IF FirstPlace(lines, LAMBDA l : HasPrefix(l, header)) = 0
             THEN ret.err = "no section found"
             ELSE ret.err = "nil" /\ HasPrefix(ret.section, header)
       IN /\ call.versionTag = Version1
               => /\ ret = GetChangelogSection(lines, <<"v">> \o Version1)
                  /\ found(HeaderOf(<<"v">> \o Version1))
          /\ call.versionTag = <<"v">> \o Version1
               => /\ ret = GetChangelogSection(lines, Version1)
                  /\ found(HeaderOf(<<"v">> \o Version1))
          /\ call.versionTag = Unreleased => found(HeaderOf(Unreleased))

\* The label 1.0.0 has found the section of `## [v1.0.0]`, below the header
\* `## [1.0.0]`.
C25_Witness ==
  /\ Returned("GetChangelogSection")
  /\ call.versionTag = Version1
  /\ call.changelogFile.lines = <<HeaderOf(Version1), HeaderOf(<<"v">> \o Version1), <<"t">>>>
  /\ ret = [section |-> HeaderOf(<<"v">> \o Version1) \o <<"\n", "t">>, err |-> "nil"]

\* The positions of the section text where a marker `[\#<digits>]` begins, and
\* the number of the marker at such a position.
MarkerPositions(text) == {i \in 1..Len(text) : PRRefEnd(text, i) # 0}
MarkerNumber(text, i) == Atoi(SubSeq(text, i + 3, PRRefEnd(text, i) - 2))

\* The position of the first marker of the text with the number n.
FirstPosition(text, n) ==
  CHOOSE i \in MarkerPositions(text) :
    /\ MarkerNumber(text, i) = n
    /\ \A j \in MarkerPositions(text) : j < i => MarkerNumber(text, j) # n

C14_FirstLine ==
  Returned("FindPRLineInSection")
    => /\ IF \E i \in 1..Len(call.lines) : Contains(call.lines[i], PRRef(call.prNumber))
          THEN \E i \in 1..Len(call.lines) :
                 /\ Contains(call.lines[i], PRRef(call.prNumber))
                 /\ \A j \in 1..(i - 1) : ~Contains(call.lines[j], PRRef(call.prNumber))
                 /\ ret.line = call.lines[i]
          ELSE ret.line = <<>>
       /\ ret.line = FindPRLineInSection(call.prNumber, call.changelogSection)

\* PR 1 has been looked up in a section whose first and second line both hold
\* its marker, and the first was returned.
C14_Witness ==
  /\ Returned("FindPRLineInSection")
  /\ call.prNumber = 1
  /\ call.lines = <<BrokenMarkers, TwoMarkers, OneMarker>>
  /\ ret.line = TwoMarkers

(***************************************************************************)
(* Further properties of CheckPR (Spec).                                   *)
(***************************************************************************)
\* A step in which a CheckPR call returns.
CheckPRReturns ==
  /\ pc = "idle"
  /\ pc' = "returned"
  /\ call'.op = "CheckPR"

\* C15: when no line of the section holds the PR's marker the result is NotFound
\* with the error "not found in changelog section"; when the line is found but
\* no description can be extracted from it the result is NotFound with the
\* error "couldn't extract description"; either way CheckPR reads no cache,
\* looks up no title, asks no oracle and writes nothing.
C15_ParseFailures ==
  [][(/\ CheckPRReturns
      /\ \/ LineTable[<<call'.prNumber, call'.section>>] = <<>>
         \/ DescTable[<<call'.prNumber, call'.section>>] = <<>>)
      => /\ ret'.result.Status = StatusNotFound
         /\ ret'.result.Error =
              IF LineTable[<<call'.prNumber, call'.section>>] = <<>>
              THEN "not found in changelog section"
              ELSE "couldn't extract description"
         /\ ret'.trace = NoTrace
         /\ UNCHANGED <<store, rateLimited, resetTime>>]_vars

\* CheckPR has returned "couldn't extract description" for a PR whose line is in
\* the section, with a title row in the store.
C15_Witness ==
  /\ Returned("CheckPR")
  /\ LineTable[<<call.prNumber, call.section>>] # <<>>
  /\ ret.result.Status = StatusNotFound
  /\ ret.result.Error = "couldn't extract description"
  /\ ret.trace = NoTrace
  /\ \E k \in Keys : prCache[k] # NoRow

(***************************************************************************)
(* Properties of the similarity pipeline (SpecSim).                        *)
(***************************************************************************)
\* C16: CheckSimilarity returns GoodMatch or PotentialMismatch, never NotFound,
\* for every description and title, with no oracle and with an oracle that
\* answers true, answers false or fails.
C16_NeverNotFound ==
  Returned("CheckSimilarity")
    => ret.status \in {StatusGoodMatch, StatusPotentialMismatch}

\* The oracle was asked about a pair the substring check rejects, and failed.
C16_Witness ==
  /\ Returned("CheckSimilarity")
  /\ hasOracle
  /\ call.answer = "error"
  /\ ret.status = StatusPotentialMismatch

\* C27: whenever the lower-cased title contains the normalized description or
\* the normalized description contains the lower-cased title, CheckSimilarity
\* returns GoodMatch and the oracle is not called, with or without an oracle.
C27_SubstringShortCircuits ==
  (/\ Returned("CheckSimilarity")
   /\ \/ Contains(ToLower(call.prTitle), NormalizeDesc(call.changelogDesc))
      \/ Contains(NormalizeDesc(call.changelogDesc), ToLower(call.prTitle)))
    => /\ ret.status = StatusGoodMatch
       /\ call.answer = "none"

\* With an oracle configured, the description "Fix bug" was matched with the
\* title "Fix bug in client" without an answer of the oracle.
C27_Witness ==
  /\ Returned("CheckSimilarity")
  /\ hasOracle
  /\ call.changelogDesc = FixBug
  /\ call.prTitle = FixBugInClient
  /\ call.answer = "none"
  /\ ret.status = StatusGoodMatch

\* s holds neither a backtick nor a period.
Plain(s) == \A i \in 1..Len(s) : s[i] \notin {Backtick, "."}

\* C17 as stated: with no oracle configured, the verdict for (description a,
\* title b) equals the verdict for (description b, title a), for all strings.
C17_Commutative ==
  (Returned("CheckSimilarity") /\ ~hasOracle)
    => ret.status = CheckSimilarity(call.prTitle, call.changelogDesc, FALSE, "none")

\* C17 as amended: with no oracle configured, the verdict for (description a,
\* title b) equals the verdict for (description b, title a) whenever neither
\* string holds a backtick or a period.
C17_CommutativeOnPlain ==
  (/\ Returned("CheckSimilarity") /\ ~hasOracle
   /\ Plain(call.changelogDesc) /\ Plain(call.prTitle))
    => ret.status = CheckSimilarity(call.prTitle, call.changelogDesc, FALSE, "none")

\* Without an oracle, a plain description that the plain title contains, but
\* that does not contain the title, has been matched.
C17_Witness ==
  /\ Returned("CheckSimilarity") /\ ~hasOracle
  /\ call.changelogDesc = <<"a">>
  /\ call.prTitle = <<"B", "a">>
  /\ ret.status = StatusGoodMatch

(***************************************************************************)
(* The verdict cache across CheckPR calls (Spec).                          *)
(***************************************************************************)
\* A step in which a CheckPR call of a checker with a store returns, having
\* read, without an error, the verdict table that holds a row for its PR.
CheckPRReadsRow ==
  /\ CheckPRReturns
  /\ ret'.trace.probed
  /\ ~ret'.trace.probeFailed
  /\ valCache[KeyOf(call'.prNumber)] # NoRow

\* C18: a CheckPR call that finds the verdict row of its PR with the call's
\* description and at most 7 days old returns the row's verdict without running
\* the similarity check or asking the oracle, and writes no verdict; a call that
\* finds the row with another description (or older) takes no verdict from it,
\* and once it has the title it computes the verdict and overwrites the row
\* with its description, its verdict and the current instant (the table is
\* left as it was if that write fails).
C18_RepeatServedFromCache ==
  [][CheckPRReadsRow
      => IF ValidVerdictCached
         THEN /\ ret'.trace.hit
              /\ ret'.result.Status = valCache[KeyOf(call'.prNumber)].status
              /\ ~ret'.trace.compared
              /\ ~ret'.trace.oracle
              /\ ~ret'.trace.stored
              /\ valCache' = valCache
         ELSE /\ ~ret'.trace.hit
              /\ ret'.trace.lookup
              /\ ret'.trace.err = "nil"
                   => /\ ret'.trace.compared
                      /\ ret'.trace.stored
                      /\ ret'.result.Status \in {StatusGoodMatch, StatusPotentialMismatch}
                      /\ valCache' =
                           IF ret'.trace.storeFailed THEN valCache
                           ELSE [valCache EXCEPT ![KeyOf(call'.prNumber)] =
                                   [changelogDesc |-> ret'.result.ChangelogDesc,
                                    status |-> ret'.result.Status,
                                    lastValidated |-> now]]]_vars

\* A CheckPR call has returned the verdict PotentialMismatch of a row written
\* at an earlier instant, without comparing.
C18_Witness ==
  /\ Returned("CheckPR")
  /\ ret.trace.hit
  /\ ~ret.trace.compared
  /\ ret.result.Status = StatusPotentialMismatch
  /\ valCache[KeyOf(call.prNumber)] # NoRow
  /\ valCache[KeyOf(call.prNumber)].changelogDesc = ret.result.ChangelogDesc
  /\ valCache[KeyOf(call.prNumber)].status = StatusPotentialMismatch
  /\ valCache[KeyOf(call.prNumber)].lastValidated < now

\* C19: the reads of a CheckPR call change neither table.  The verdict table
\* changes only when StoreValidationResult is called and the title table only
\* when a title was fetched, so a row that is read and found stale, or found
\* with another description, stays as it is unless such a write replaces it; a
\* call served from a cached verdict writes no verdict, so the row keeps the
\* instant of its computation and is no longer a hit once that is more than 7
\* days back; the rows of every other PR stay as they are.
C19_ReadsLeaveStore ==
  [][CheckPRReturns
      => /\ ~ret'.trace.stored => valCache' = valCache
         /\ ~ret'.trace.sent => prCache' = prCache
         /\ ret'.trace.hit
              => /\ ~ret'.trace.stored
                 /\ Age(now, valCache'[KeyOf(call'.prNumber)].lastValidated) <= 7
         /\ \A k \in Keys \ {KeyOf(call'.prNumber)} :
              prCache'[k] = prCache[k] /\ valCache'[k] = valCache[k]]_vars

\* A CheckPR call was served from a verdict row that is 7 days old, and the row
\* still carries the instant of its computation; the title row it read is
\* older than 7 days and, the fetch having failed, is still there.
C19_Witness ==
  /\ Returned("CheckPR")
  /\ ret.trace.hit
  /\ ret.trace.err # "nil"
  /\ valCache[KeyOf(call.prNumber)] # NoRow
  /\ Age(now, valCache[KeyOf(call.prNumber)].lastValidated) = 7
  /\ prCache[KeyOf(call.prNumber)] # NoRow
  /\ Age(now, prCache[KeyOf(call.prNumber)].fetchedAt) > 7

(***************************************************************************)
(* The writes of the cache store (SpecDB).                                 *)
(***************************************************************************)
\* A step in which a call of the store's operation op returns without an error.
DBReturns(op) ==
  /\ pc = "idle"
  /\ pc' = "returned"
  /\ call'.op = op
  /\ ret'.err = "nil"

\* C20: each table holds one row per (owner, repo, PR) key.  A put that returns
\* no error leaves, for its key, the row with the values of that put and the
\* current instant, whatever row was there, and leaves the rows of the other
\* keys and the other table as they were; every other step leaves both tables
\* as they were, so the row of a key is that of the most recent put.  A get of
\* the key right after StoreValidationResult(key, D, v), with D, returns v as a
\* valid verdict.
C20_Upsert ==
  [][IF DBReturns("StorePRInfo")
     THEN /\ prCache' = [prCache EXCEPT ![call'.key] =
                           [title |-> call'.title, fetchedAt |-> now]]
          /\ valCache' = valCache
          /\ DBGetPRInfo(prCache', call'.key, now', FALSE)
               = [title |-> call'.title, found |-> TRUE, err |-> "nil"]
     ELSE IF DBReturns("StoreValidationResult")
     THEN /\ valCache' = [valCache EXCEPT ![call'.key] =
                            [changelogDesc |-> call'.changelogDesc, status |-> call'.status,
                             lastValidated |-> now]]
          /\ prCache' = prCache
          /\ DBGetValidationResult(valCache', call'.key, call'.changelogDesc, now', FALSE)
               = [status |-> call'.status, found |-> TRUE, err |-> "nil"]
     ELSE UNCHANGED store]_vars

\* A verdict has been put, after the first instant, for a key that has a title
\* row, while the other key holds a verdict row with the other description
\* written at an earlier instant.
C20_Witness ==
  /\ Returned("StoreValidationResult")
  /\ ret.err = "nil"
  /\ now > 0
  /\ valCache[call.key] = [changelogDesc |-> call.changelogDesc, status |-> call.status,
                           lastValidated |-> now]
  /\ prCache[call.key] # NoRow
  /\ \E k \in DBKeys \ {call.key} :
       /\ valCache[k] # NoRow
       /\ valCache[k].changelogDesc # call.changelogDesc
       /\ valCache[k].lastValidated < now

(***************************************************************************)
(* Properties of close-reopened-issues (SpecClose).                        *)
(***************************************************************************)
\* The place of the issue n among the issues found, 0 if it is not among them.
Place(n) ==
  IF \E i \in 1..Len(reopenedIssues) : reopenedIssues[i] = n
  THEN CHOOSE i \in 1..Len(reopenedIssues) : reopenedIssues[i] = n
  ELSE 0

\* The user answered a at an issue that comes before the issue n.
AllAnsweredBefore(n) ==
  \E i \in 1..(Place(n) - 1) : accepted[reopenedIssues[i]] = <<"a">>

\* A call was made to comment on the issue n or to close it.
Touched(n) == n \in commentCalls \cup updateCalls \cup closed

\* C21: an issue is commented on or closed only if the user answered y, Enter
\* or a at its prompt or a at an earlier issue; after an a no later issue is
\* prompted for; an n leaves that issue alone and the loop goes on to the next
\* issue, which is prompted for; after an answer that is none of y, n, a, Enter
\* the script is at a prompt for the same issue again, with no call made for
\* it.
C21_InteractiveApproval ==
  /\ \A n \in IssueNumbers :
       /\ Touched(n)
            => \/ accepted[n] \in {<<"y">>, <<>>, <<"a">>}
               \/ AllAnsweredBefore(n)
       /\ AllAnsweredBefore(n) => prompts[n] = 0
       /\ accepted[n] = <<"n">>
            => /\ ~Touched(n)
               /\ IF Place(n) < Len(reopenedIssues)
                  THEN item > Place(n) /\ prompts[reopenedIssues[Place(n) + 1]] >= 1
                  ELSE at = "done"
  /\ lastAnswer \notin ValidAnswers \cup {NoAnswer}
       => /\ at \in {"prompt again", "retry", "exited"}
          /\ at = "exited" => lastAnswer = <<"o">>
          /\ prompts[Issue] >= (IF at = "exited" THEN 1 ELSE 2)
          /\ accepted[Issue] = NoAnswer
          /\ ~Touched(Issue)

\* The run is over: the first issue was opened in the browser, then answered
\* with something invalid, then with a; both issues were closed and the second
\* was never prompted for.
C21_Witness ==
  /\ at = "done"
  /\ reopenedIssues = <<2, 1>>
  /\ opened = {2}
  /\ prompts[2] = 3
  /\ accepted[2] = <<"a">>
  /\ prompts[1] = 0
  /\ accepted[1] = NoAnswer
  /\ closed = {1, 2}

\* C22: in a dry run no call to comment on an issue or to close one is made and
\* no prompt is issued; the run ends with the reopened issues listed, or exits
\* before.
C22_DryRun ==
  dryRun
    => /\ commentCalls = {} /\ updateCalls = {} /\ closed = {}
       /\ \A n \in IssueNumbers : prompts[n] = 0
       /\ at \in {"main", "done", "exited"}
       /\ at = "done" => listed

\* A dry run that found two reopened issues is over.
C22_Witness ==
  /\ dryRun
  /\ at = "done"
  /\ listed
  /\ Len(reopenedIssues) = 2
  /\ closed = {}

(***************************************************************************)
(* The description of a PR (SpecParse).                                    *)
(***************************************************************************)
\* The link construct of the PR n begins at the place i of the line: its marker,
\* "(", a URL of one character at least, ")", a blank and some text.
LinkOfPRAt(line, n, i) ==
  /\ OccursAt(line, i, PRRef(n) \o <<"(">>)
  /\ LET open == i + Len(PRRef(n))
         shut == FirstAt(line, open + 1, ")")
     IN shut > open + 1 /\ shut + 2 <= Len(line) /\ line[shut + 1] = " "

\* The text that follows the first link construct of the PR n, <<>> if the
\* line has no link construct of n.
TextAfterLinkOf(line, n) ==
  IF \E i \in 1..Len(line) : LinkOfPRAt(line, n, i)
  THEN LET i == CHOOSE i \in 1..Len(line) :
                  LinkOfPRAt(line, n, i) /\ \A j \in 1..(i - 1) : ~LinkOfPRAt(line, n, j)
           shut == FirstAt(line, i + Len(PRRef(n)) + 1, ")")
       IN SubSeq(line, shut + 2, Len(line))
  ELSE <<>>

\* C26: for a line that holds the marker of the PR n, GetPRDescriptionFromLine
\* returns the text after the link construct of that PR n, also on a line with
\* the links of several PRs; it returns the empty string when the line has no
\* link construct or does not hold the marker of n.
C26_DescriptionOfThatPR ==
  Returned("GetPRDescriptionFromLine")
    => ret.desc = IF Contains(call.line, PRRef(call.prNumber))
                  THEN TextAfterLinkOf(call.line, call.prNumber)
                  ELSE <<>>

\* On the lines with the link of one PR at most, the text after that link is
\* returned for the PR of the link, and the empty string is returned for a line
\* without the marker of the PR asked for.
DescriptionOnSingleLink ==
  (Returned("GetPRDescriptionFromLine") /\ call.line # TwoLinks)
    => ret.desc = IF Contains(call.line, PRRef(call.prNumber))
                  THEN TextAfterLinkOf(call.line, call.prNumber)
                  ELSE <<>>

\* C28: when CheckPR runs the similarity check and neither normalized string
\* contains the other, the oracle is asked exactly when one is configured; the
\* status is GoodMatch exactly when an oracle is configured and answers yes
\* without an error, and PotentialMismatch otherwise (no oracle, an answer of no,
\* a failed call); in each case the result carries no error.
C28_OracleStage ==
  [][(/\ CheckPRLooksUp
      /\ ret'.trace.compared
      /\ ~SubstringMatch(ret'.result.ChangelogDesc, ret'.result.PRTitle))
      => /\ ret'.trace.oracle = hasOracle
         /\ ret'.trace.answer \in IF hasOracle THEN OracleAnswers ELSE {"none"}
         /\ ret'.result.Status = IF hasOracle /\ ret'.trace.answer = "yes"
                                 THEN StatusGoodMatch
                                 ELSE StatusPotentialMismatch
         /\ ret'.result.Error = "nil"]_vars

\* The oracle's call failed after the substring test had failed: the check
\* returned PotentialMismatch with no error.
C28_Witness ==
  /\ Returned("CheckPR")
  /\ ret.trace.compared
  /\ ~SubstringMatch(ret.result.ChangelogDesc, ret.result.PRTitle)
  /\ hasOracle
  /\ ret.trace.answer = "error"
  /\ ret.result.Status = StatusPotentialMismatch
  /\ ret.result.Error = "nil"

\* C29: the title table is a read-through cache.  A title row is written only
\* by a lookup that fetched the title from the provider, with that title and the
\* instant of the fetch.  While the row is at most 7 days old, a lookup for its
\* key that is not rejected by the rate limit and whose read of the row does not
\* fail returns the row's title with no error, sends no request and leaves the
\* table as it was; once the row is more than 7 days old such a lookup sends a
\* request again.
C29_ReadThroughTitleCache ==
  [][CheckPRLooksUp
      => /\ prCache' # prCache
              => /\ ret'.trace.sent
                 /\ ret'.trace.err = "nil"
                 /\ prCache' = [prCache EXCEPT ![KeyOf(call'.prNumber)] =
                                  [title |-> ret'.result.PRTitle, fetchedAt |-> now]]
         /\ (/\ prCache[KeyOf(call'.prNumber)] # NoRow
             /\ ~(rateLimited /\ now < resetTime)
             /\ ~ret'.trace.readFailed)
              => IF Age(now, prCache[KeyOf(call'.prNumber)].fetchedAt) <= 7
                 THEN /\ ~ret'.trace.sent
                      /\ ret'.trace.err = "nil"
                      /\ ret'.result.PRTitle = prCache[KeyOf(call'.prNumber)].title
                      /\ ret'.result.Error = "nil"
                      /\ prCache' = prCache
                 ELSE ret'.trace.sent]_vars

\* A lookup was served, without a request, the title of a row fetched exactly 7
\* days before.
C29_Witness ==
  /\ Returned("CheckPR")
  /\ ret.trace.lookup
  /\ ~ret.trace.sent
  /\ ret.trace.err = "nil"
  /\ prCache[KeyOf(call.prNumber)] # NoRow
  /\ Age(now, prCache[KeyOf(call.prNumber)].fetchedAt) = 7
  /\ ret.result.PRTitle = prCache[KeyOf(call.prNumber)].title
  /\ ret.result.PRTitle # <<>>

\* A step in which a CheckPR call ends, by returning or by faulting.
CheckPREnds ==
  /\ pc = "idle"
  /\ pc' \in {"returned", "panicked"}
  /\ call'.op = "CheckPR"

\* The response a call got to its request, read from what it did (did), the
\* PRResult it returned and the client's reset time after it.
ResponseGot(did, result, reset) ==
  IF ~did.sent THEN NoResponse
  ELSE CASE did.err = "nil" -> [kind |-> "ok", title |-> result.PRTitle]
         [] did.err = "transport error" -> [kind |-> "transport"]
         [] did.err = "rate limited until" -> [kind |-> "limited", reset |-> reset]
         [] did.err = "rate limited by GitHub API" -> [kind |-> "limited no reset"]
         [] did.err = "GitHub API returned status" -> [kind |-> "status"]
         [] did.err = "decode error" -> [kind |-> "bad body"]

\* The checker in the current state, without the rows of prNumber whose read
\* returned an error in the call that did did.
WithoutUnreadRows(prNumber, did) ==
  [CheckerState EXCEPT
     !.valCache = IF did.probeFailed
                  THEN [valCache EXCEPT ![KeyOf(prNumber)] = NoRow]
                  ELSE valCache,
     !.prCache = IF did.readFailed
                 THEN [prCache EXCEPT ![KeyOf(prNumber)] = NoRow]
                 ELSE prCache]

\* The same call on a store without those rows and with no failure, the
\* provider and the oracle answering as they did.
SameCallNoFailure(prNumber, sec, did, result, reset) ==
  CheckPR(prNumber, sec, WithoutUnreadRows(prNumber, did), KeyOf(prNumber), {},
          ResponseGot(did, result, reset), did.answer)

\* A call that returned result, or faulted, ends as r: the same PRResult, and a
\* fault if and only if r is one.
EndsAs(result, faulted, r) ==
  /\ result = r.result
  /\ faulted = r.panic

\* C30: a CheckPR call in which an operation of the store returns an error ends
\* as the same call ends on a store where the rows it failed to read are missing
\* and no operation fails: the same PRResult (status, title, error), and a fault
\* only where that call faults.  A failed read of the verdict row is no hit and
\* the title lookup follows; a failed read of the title row is followed by the
\* request; a failed write leaves its table as it was.
C30_CacheErrorsNotFatal ==
  [][(CheckPREnds /\ FailedOps(ret'.trace) # {})
      => /\ ret'.trace.probeFailed => ~ret'.trace.hit /\ ret'.trace.lookup
         /\ ret'.trace.readFailed => ret'.trace.sent
         /\ ret'.trace.writeFailed => prCache' = prCache /\ ret'.result.Error = "nil"
         /\ ret'.trace.storeFailed => valCache' = valCache /\ ret'.result.Error = "nil"
         /\ \A called \in {call'}, returned \in {ret'}, reset \in {resetTime'},
               faulted \in {pc' = "panicked"} :
              EndsAs(returned.result, faulted,
                     SameCallNoFailure(called.prNumber, called.section, returned.trace,
                                       returned.result, reset))]_vars

\* The read of the title row returned an error: the title was fetched,
\* compared and returned with a verdict and no error.
C30_Witness ==
  /\ Returned("CheckPR")
  /\ now > 0
  /\ ret.trace.readFailed
  /\ ret.trace.sent
  /\ ret.trace.err = "nil"
  /\ ret.trace.compared
  /\ ret.result.Error = "nil"
  /\ ret.result.PRTitle = GitHubTitle(call.prNumber)
  /\ ret.result.Status = StatusPotentialMismatch

(***************************************************************************)
(* Two interleaved CheckPR calls for one PR (SpecRace).                    *)
(***************************************************************************)
\* Two calls for one PR have returned after a race: each probed the verdict
\* table before either wrote it, both wrote, and their verdicts differ.
Raced ==
  /\ Returned("CheckPR twice")
  /\ \A p \in Pipelines : call.runs[p].probedAt \in {1, 2} /\ call.runs[p].storedAt \in {3, 4}
  /\ call.runs[1].status # call.runs[2].status

\* The verdict row of the PR of the two calls pairs the description of one call
\* with the verdict of the other.
MixedRow ==
  \E p \in Pipelines, q \in Pipelines :
    /\ p # q
    /\ valCache[KeyOf(call.prNumber)] # NoRow
    /\ valCache[KeyOf(call.prNumber)].changelogDesc = call.runs[p].desc
    /\ valCache[KeyOf(call.prNumber)].status = call.runs[q].status

Verdicts == {StatusGoodMatch, StatusPotentialMismatch}

\* C32: starting from an empty store, every row of the verdict table holds
\* GoodMatch or PotentialMismatch, never NotFound, and a description that is not
\* empty, and its verdict is one CheckSimilarity gives for that description and
\* the PR's title; the row a call has just written holds the description of its
\* result and the verdict CheckSimilarity gave for it with the oracle's answer
\* of that call; a result taken from a cached verdict is never NotFound.
C32_VerdictRows ==
  /\ \A k \in Keys :
       valCache[k] # NoRow
         => /\ valCache[k].status \in Verdicts
            /\ valCache[k].changelogDesc # <<>>
            /\ \E answer \in OracleAnswers :
                 valCache[k].status = CheckSimilarity(valCache[k].changelogDesc,
                                                      GitHubTitle(k[3]), hasOracle, answer)
  /\ (Returned("CheckPR") /\ ret.trace.stored /\ ~ret.trace.storeFailed)
       => /\ valCache[KeyOf(call.prNumber)] =
               [changelogDesc |-> ret.result.ChangelogDesc, status |-> ret.result.Status,
                lastValidated |-> now]
          /\ ret.result.Status = CheckSimilarity(ret.result.ChangelogDesc, ret.result.PRTitle,
                                                 hasOracle, ret.trace.answer)
  /\ (Returned("CheckPR") /\ ret.trace.hit)
       => /\ ret.result.Status \in Verdicts
          /\ ret.result.Status = valCache[KeyOf(call.prNumber)].status

\* A call was served a PotentialMismatch from a row written after the oracle
\* failed, and its lookup failed: the result keeps the cached verdict.
C32_Witness ==
  /\ Returned("CheckPR")
  /\ ret.trace.hit
  /\ ret.result.Error # "nil"
  /\ ret.result.Status = StatusPotentialMismatch
  /\ valCache[KeyOf(call.prNumber)].lastValidated < now

\* C33: every PRResult returned by CheckPR with the status NotFound carries an
\* error; every PRResult without an error has a description that is not empty,
\* the title that a lookup without error returned (the provider's, or the one of
\* the title row if no request was sent) and the status GoodMatch or
\* PotentialMismatch.
C33_ResultShape ==
  Returned("CheckPR")
    => /\ ret.result.Status = StatusNotFound => ret.result.Error # "nil"
       /\ ret.result.Error = "nil"
            => /\ ret.result.ChangelogDesc # <<>>
               /\ ret.trace.lookup /\ ret.trace.err = "nil"
               /\ ret.result.PRTitle = IF ret.trace.sent THEN GitHubTitle(call.prNumber)
                                       ELSE prCache[KeyOf(call.prNumber)].title
               /\ ret.result.Status \in Verdicts

\* A result without error whose verdict came from the verdict table and whose
\* title came from the title table.
C33_Witness ==
  /\ Returned("CheckPR")
  /\ ret.result.Error = "nil"
  /\ ret.trace.hit /\ ~ret.trace.sent
  /\ ret.result.Status = StatusPotentialMismatch
  /\ ret.result.PRTitle = GitHubTitle(call.prNumber)

(***************************************************************************)
(* Extraction and line lookup (SpecBatch).                                 *)
(***************************************************************************)
\* The line FindPRLineInSection finds, read from the table where the table has it.
LineInSection(prNumber, changelogSection) ==
  IF <<prNumber, changelogSection>> \in DOMAIN LineTable
  THEN LineTable[<<prNumber, changelogSection>>]
  ELSE FindPRLineInSection(prNumber, changelogSection)

\* CheckChangelog has returned the results of its loop.
CheckChangelogReturned == Returned("CheckChangelog") /\ ret.err = "nil"

\* C34: for every PR number that ExtractPRNumbers returned for the section and
\* CheckChangelog selected, FindPRLineInSection finds a line of the section, and
\* no result of CheckChangelog has the error "not found in changelog section";
\* also when the digits of a marker have leading zeros.
C34_ExtractionAgreesWithLookup ==
  CheckChangelogReturned
    => \A i \in 1..Len(prNumbers) :
         /\ LineInSection(prNumbers[i], section) # <<>>
         /\ ret.results[i].Error # "not found in changelog section"

\* The section has a marker of the number n whose digits are those that
\* FindPRLineInSection writes for n (no leading zeros).
HasPlainMarker(text, n) ==
  \E i \in MarkerPositions(text) : SubSeq(text, i, PRRefEnd(text, i) - 1) = PRRef(n)

\* Extraction and lookup agree on every selected PR number that has a marker
\* without leading zeros in the section.
AgreementOnPlainMarkers ==
  CheckChangelogReturned
    => \A i \in 1..Len(prNumbers) :
         HasPlainMarker(section, prNumbers[i])
           => /\ LineInSection(prNumbers[i], section) # <<>>
              /\ ret.results[i].Error # "not found in changelog section"

(***************************************************************************)
(* Degenerate inputs of the substring check (SpecSim).                     *)
(***************************************************************************)
\* The description consists of backticks only (the empty description too), or
\* its first character other than a backtick is a period.
BackticksThenPeriod(changelogDesc) ==
  \E i \in 1..(Len(changelogDesc) + 1) :
    /\ \A j \in 1..(i - 1) : changelogDesc[j] = Backtick
    /\ i = Len(changelogDesc) + 1 \/ changelogDesc[i] = "."

GotLimitedWithReset(did) == did.sent /\ did.err = "rate limited until"
GotLimitedWithoutReset(did) == did.err = "rate limited by GitHub API"
RejectedByCooldown(did) == ~did.sent /\ did.err = "rate limited until"

\* A lookup of the PR n at the instant t or later, by the client cl on the title
\* table cache, is not rejected and sends a request.
SendsFrom(cl, cache, n, t, readFailed) ==
  \A later \in Instants :
    later >= t => /\ ~ClientRejects(cl, later)
                  /\ SendsRequest(cl, cache, KeyOf(n), later, readFailed)

\* C36: rateLimited and resetTime change only in a lookup that gets a 403 or 429
\* response with a parsable X-RateLimit-Reset header, which sets the flag and
\* the reset time of the header; a 403 or 429 response without such a header
\* fails that lookup and leaves the flag, the reset time and the title table as
\* they were, so that a following lookup of that PR is not rejected and sends a
\* request again; the flag, once set, is never cleared, and a lookup is rejected
\* while the flag is set exactly if now < resetTime.
C36_RateLimitTransitions ==
  [][IF CheckPRLooksUp
     THEN \A did \in {ret'.trace}, flag \in {rateLimited'}, reset \in {resetTime'} :
            /\ (flag # rateLimited \/ reset # resetTime) => GotLimitedWithReset(did)
            /\ GotLimitedWithReset(did) => flag /\ reset \in ResetTimes
            /\ rateLimited => flag
            /\ RejectedByCooldown(did) <=> (rateLimited /\ now < resetTime)
            /\ GotLimitedWithoutReset(did)
                 => /\ did.sent
                    /\ ret'.result.Error = "rate limited by GitHub API"
                    /\ flag = rateLimited /\ reset = resetTime
                    /\ prCache' = prCache
                    /\ SendsFrom(Client, prCache, call'.prNumber, now, did.readFailed)
     ELSE rateLimited' = rateLimited /\ resetTime' = resetTime]_vars

\* With the flag set and the reset time reached, a lookup sent its request, got
\* a 403 or 429 response without a reset header and failed; the flag is still
\* set and the reset time is the one set before.
C36_Witness ==
  /\ Returned("CheckPR")
  /\ ret.trace.sent
  /\ ret.trace.err = "rate limited by GitHub API"
  /\ ret.result.Status = StatusNotFound
  /\ rateLimited /\ resetTime = TTL /\ now >= resetTime

=============================================================================
